---- MODULE Spec2Model ----
(***************************************************************************)
(* Model of the DeFi systemic-risk metrics engine: the analyzers of        *)
(* src/src/metrics (stablecoin.py, leverage.py, bridge.py, liquidation.py) *)
(* and the TVL-proxy estimator of liquidation.py, the daily run of         *)
(* src/src/pipeline.py with src/src/publish.py, and the cascade query of   *)
(* src/mcp/server.py.                                                      *)
(*                                                                         *)
(* Numbers.  The analyzers compute on Python floats; the model computes on *)
(* exact decimal fixed point, each quantity in a unit under which every    *)
(* literal of the source is an integer:                                    *)
(*   prices            1/1000 USD   (the peg 1.0 is 1000)                  *)
(*   market caps       1e9 USD                                             *)
(*   pool values       1e6 USD                                             *)
(*   bridge values     1e9 USD                                             *)
(*   collateral, debt, token balances   1e23 raw units (1e5 tokens)        *)
(*   liquidation thresholds             basis points (the raw value)       *)
(*   eth_price_usd     1000 USD;  asset_prices_usd   1 USD                 *)
(*   drop fractions    1/1000                                              *)
(*   protocol TVLs     1e7 USD;  avg_ltv   percent                         *)
(* A quotient is kept as an exact fraction [n, d] with d > 0 and compared  *)
(* by cross-multiplication; round(x, k) is round-half-even to k decimals.  *)
(* The HHI, whose squares do not fit the integers' width, is kept as a     *)
(* whole part and a remainder over total ** 2.                             *)
(*                                                                         *)
(* A field of an input record is a tagged value: a number, None (the key   *)
(* is missing or null) or Invalid (a non-numeric string such as "n/a").    *)
(* A call either returns a report (a record) or raises (the record         *)
(* [exception |-> <type>]).                                                *)
(*                                                                         *)
(* State.  pc is the position of the caller or of the pipeline run, fn    *)
(* and args the function under way and its arguments, report what it       *)
(* returned; calls is the log of the analyzer calls made so far, payload   *)
(* the dict run_pipeline builds and published the two files it writes.     *)
(***************************************************************************)
EXTENDS Integers, Sequences, FiniteSets, TLC

VARIABLES pc, fn, args, report, calls, payload, published

vars == <<pc, fn, args, report, calls, payload, published>>

(* ------------------------------------------------------------------ *)
(* Python values                                                      *)
(* ------------------------------------------------------------------ *)

Num(x) == [t |-> "num", v |-> x]

None == [t |-> "none", v |-> 0]

Invalid == [t |-> "str", v |-> 0]

IsNum(x) == x.t = "num"

\* Python's `x or d`: None, 0 and 0.0 are falsy; a number other than 0 and a
\* non-empty string are truthy.
py_or(x, d) == IF x.t = "none" \/ (x.t = "num" /\ x.v = 0) THEN d ELSE x

\* The number a mutant reads where the code would have raised.
safe_number(x) == IF IsNum(x) THEN x.v ELSE 0

Raise(type) == [exception |-> type]

Raised(r) == DOMAIN r = {"exception"}

Abs(x) == IF x < 0 THEN -x ELSE x

\* round(): n/d (d > 0) rounded to the nearest integer, ties to even.
RoundDiv(n, d) ==
    LET q == n \div d
        r == n - q * d
    IN  IF 2 * r < d THEN q
        ELSE IF 2 * r > d THEN q + 1
        ELSE IF q % 2 = 0 THEN q ELSE q + 1

Range(s) == {s[i] : i \in 1..Len(s)}

\* Euclid's algorithm; each step works on the values of a and b.
RECURSIVE Gcd(_, _)
Gcd(a, b) ==
    IF b = 0 THEN a
    ELSE CHOOSE g \in {Gcd(y, x % y) : x \in {a}, y \in {b}} : TRUE

\* The fraction n / d (d > 0) in lowest terms.
Frac(n, d) ==
    LET g == Gcd(Abs(n), d)
    IN  IF n = 0 THEN [n |-> 0, d |-> 1] ELSE [n |-> n \div g, d |-> d \div g]

\* a * b as q * m + r with 0 <= r < m, by doubling, so that no intermediate
\* value exceeds 2 * m + a (a * b itself may not fit the integers' width).
RECURSIVE MulDivMod(_, _, _)
MulDivMod(a, b, m) ==
    IF b = 0 THEN [q |-> 0, r |-> 0]
    ELSE LET double(h) ==
                 LET x == 2 * h.r + (b % 2) * a
                 IN  [q |-> 2 * h.q + x \div m, r |-> x % m]
         IN  CHOOSE v \in {double(h) : h \in {MulDivMod(a, b \div 2, m)}} : TRUE

\* round(a * b / m) (a, b >= 0, m > 0), ties to even.
RoundMulDiv(a, b, m) ==
    LET x == MulDivMod(a, b, m)
    IN  IF 2 * x.r < m THEN x.q
        ELSE IF 2 * x.r > m THEN x.q + 1
        ELSE IF x.q % 2 = 0 THEN x.q ELSE x.q + 1

RECURSIVE SumSeq(_)
SumSeq(s) == IF s = <<>> THEN 0 ELSE s[1] + SumSeq(Tail(s))

\* All sequences over S of length 0..n.
SeqsUpTo(S, n) == UNION {[1..k -> S] : k \in 0..n}

\* sorted(..., key=Key, reverse=True): descending by key, equal keys keep
\* their input order (Python's sort is stable, also under reverse=True).
SortedDesc(s, Key(_)) ==
    LET rank(i) == 1 + Cardinality({j \in 1..Len(s) :
                        Key(s[j]) > Key(s[i]) \/ (Key(s[j]) = Key(s[i]) /\ j < i)})
    IN  [p \in 1..Len(s) |-> s[CHOOSE i \in 1..Len(s) : rank(i) = p]]

(* ------------------------------------------------------------------ *)
(* stablecoin.py                                                      *)
(* ------------------------------------------------------------------ *)

\* The peg, 1.0 USD, in price units.
Peg == 1000

\* _stress_level's boundaries 0.02, 0.005, 0.001 as deviations in price units.
StressCritical == 20

StressElevated == 5

StressMild == 1

\* _stress_level(deviation), deviation = x.n / x.d price units.
stress_level(x) ==
    IF x.n > StressCritical * x.d THEN "CRITICAL"
    ELSE IF x.n > StressElevated * x.d THEN "ELEVATED"
    ELSE IF x.n > StressMild * x.d THEN "MILD"
    ELSE "NORMAL"

\* price = coin.get("current_price", 1.0) or 1.0
coin_price(coin) == py_or(coin.current_price, Num(Peg))

\* mcap = coin.get("market_cap", 0) or 0
coin_mcap(coin) == py_or(coin.market_cap, Num(0))

\* Mutant: the boundaries exclusive at the higher tier.
peg_status_strict(abs_deviation, warn_threshold, critical_threshold) ==
    IF abs_deviation > critical_threshold THEN "CRITICAL"
    ELSE IF abs_deviation > warn_threshold THEN "WARNING"
    ELSE "STABLE"

peg_status(abs_deviation, warn_threshold, critical_threshold) ==
    IF abs_deviation >= critical_threshold THEN "CRITICAL"
    ELSE IF abs_deviation >= warn_threshold THEN "WARNING"
    ELSE "STABLE"

\* The entry appended to `coins` for one input record (numeric fields only).
\* price_usd and peg_deviation are rounded to 6 decimals (1e-6 USD, 1000 per
\* price unit), peg_deviation_pct to 4 decimals of a percent (1000 per price
\* unit), market_cap_usd_bn to 3.
peg_coin(coin, warn_threshold, critical_threshold) ==
    LET price == coin_price(coin).v
        mcap == coin_mcap(coin).v
        deviation == price - Peg
        abs_deviation == Abs(deviation)
    IN  [ id |-> coin.id,
          price_usd |-> RoundDiv(price * 1000, 1),
          peg_deviation |-> RoundDiv(deviation * 1000, 1),
          peg_deviation_pct |-> RoundDiv(abs_deviation * 1000, 1),
          status |-> peg_status(abs_deviation, warn_threshold, critical_threshold),
          market_cap_usd_bn |-> RoundDiv(mcap * 1000, 1) ]

\* Mutant: the deviation summed without its market-cap weight.
RECURSIVE peg_totals_unweighted(_, _)
peg_totals_unweighted(data, k) ==
    IF k = 0 THEN [total_mcap |-> 0, weighted_dev |-> 0]
    ELSE LET acc == peg_totals_unweighted(data, k - 1)
             mcap == coin_mcap(data[k]).v
             abs_deviation == Abs(coin_price(data[k]).v - Peg)
         IN  [ total_mcap |-> acc.total_mcap + mcap,
               weighted_dev |-> acc.weighted_dev + abs_deviation ]

\* total_mcap and weighted_dev after the loop over the first k records.
RECURSIVE peg_totals(_, _)
peg_totals(data, k) ==
    IF k = 0 THEN [total_mcap |-> 0, weighted_dev |-> 0]
    ELSE LET acc == peg_totals(data, k - 1)
             mcap == coin_mcap(data[k]).v
             abs_deviation == Abs(coin_price(data[k]).v - Peg)
         IN  [ total_mcap |-> acc.total_mcap + mcap,
               weighted_dev |-> acc.weighted_dev + mcap * abs_deviation ]

abs_peg_deviation(c) == Abs(c.peg_deviation)

analyse_pegs(data, warn_threshold, critical_threshold) ==
    IF \E i \in 1..Len(data) :
            ~IsNum(coin_price(data[i])) \/ ~IsNum(coin_mcap(data[i]))
    THEN Raise("TypeError")
    ELSE
    LET coins == [i \in 1..Len(data) |->
                    peg_coin(data[i], warn_threshold, critical_threshold)]
        acc == peg_totals(data, Len(data))
        total_mcap == acc.total_mcap
        weighted_dev == acc.weighted_dev
        system_stress == IF total_mcap > 0
                         THEN Frac(weighted_dev, total_mcap)
                         ELSE [n |-> 0, d |-> 1]
    IN  [ total_stablecoin_mcap_usd_bn |-> RoundDiv(total_mcap * 100, 1),
          \* round(system_stress * 100, 6): 1e-6 percent, 100000 per price unit
          system_peg_stress_index |->
              RoundDiv(system_stress.n * 100000, system_stress.d),
          system_stress_level |-> stress_level(system_stress),
          critical_count |->
              Cardinality({i \in 1..Len(coins) : coins[i].status = "CRITICAL"}),
          warning_count |->
              Cardinality({i \in 1..Len(coins) : coins[i].status = "WARNING"}),
          coins |-> SortedDesc(coins, abs_peg_deviation) ]

(* ------------------------------------------------------------------ *)
(* leverage.py                                                        *)
(* ------------------------------------------------------------------ *)

TRACKED_LENDING ==
    { "aave-v3", "aave-v2", "compound-v3", "compound-v2",
      "makerdao", "spark", "morpho-blue", "radiant-v2",
      "venus", "benqi", "euler", "fraxlend" }

\* str.lower() on the project slugs and categories the model draws from.
lower(project) ==
    CASE project = "Aave-V3" -> "aave-v3"
      [] project = "Uniswap" -> "uniswap"
      [] project = "Lending" -> "lending"
      [] project = "CDP" -> "cdp"
      [] project = "Dexes" -> "dexes"
      [] OTHER -> project

\* _util_stress's boundaries 0.90, 0.80, 0.65, 0.50 in percent.
UtilCritical == 90

UtilHigh == 80

UtilElevated == 65

UtilModerate == 50

\* _util_stress(util), util = x.n / x.d.
util_stress(x) ==
    IF x.n * 100 >= UtilCritical * x.d THEN "CRITICAL"
    ELSE IF x.n * 100 >= UtilHigh * x.d THEN "HIGH"
    ELSE IF x.n * 100 >= UtilElevated * x.d THEN "ELEVATED"
    ELSE IF x.n * 100 >= UtilModerate * x.d THEN "MODERATE"
    ELSE "LOW"

\* tvl = pool.get("tvlUsd", 0) or 0
pool_tvl(pool) == py_or(pool.tvlUsd, Num(0))

\* borrow_tvl = pool.get("totalBorrowUsd") or pool.get("borrowTvl") or 0
pool_borrow_tvl(pool) == py_or(py_or(pool.totalBorrowUsd, pool.borrowTvl), Num(0))

\* supply_tvl = pool.get("totalSupplyUsd") or tvl
pool_supply_tvl(pool) == py_or(pool.totalSupplyUsd, pool_tvl(pool))

\* A tracked pool with a string where a number is read: `supply_tvl > 0`,
\* `borrow_tvl / supply_tvl` or round(x / 1e6, 2) raises TypeError.
pool_raises(pool) ==
    /\ lower(pool.project) \in TRACKED_LENDING
    /\ \/ ~IsNum(pool_tvl(pool))
       \/ ~IsNum(pool_borrow_tvl(pool))
       \/ ~IsNum(pool_supply_tvl(pool))

\* utilization = borrow_tvl / supply_tvl if supply_tvl > 0 else 0.0
ratio_or_zero(borrow, supply) ==
    IF supply > 0 THEN Frac(borrow, supply) ELSE [n |-> 0, d |-> 1]

\* Mutant: the whitelist test of line 55 left out.
RECURSIVE protocol_data_unfiltered(_, _)
protocol_data_unfiltered(pools, k) ==
    IF k = 0 THEN <<>>
    ELSE
    LET acc == protocol_data_unfiltered(pools, k - 1)
        pool == pools[k]
        project == lower(pool.project)
        fresh == [ protocol |-> project, pools |-> <<>>,
                   total_tvl |-> 0, total_borrow |-> 0, total_supply |-> 0 ]
        seen == \E i \in 1..Len(acc) : acc[i].protocol = project
        data == IF seen THEN acc ELSE Append(acc, fresh)
        at == CHOOSE i \in 1..Len(data) : data[i].protocol = project
    IN  [data EXCEPT ![at] =
            [ protocol |-> project,
              pools |-> Append(data[at].pools, [symbol |-> pool.symbol]),
              total_tvl |-> data[at].total_tvl + safe_number(pool_tvl(pool)),
              total_borrow |-> data[at].total_borrow + safe_number(pool_borrow_tvl(pool)),
              total_supply |-> data[at].total_supply + safe_number(pool_supply_tvl(pool)) ]]

\* protocol_data after the loop over the first k pools: the dict's values in
\* insertion order.
RECURSIVE protocol_data(_, _)
protocol_data(pools, k) ==
    IF k = 0 THEN <<>>
    ELSE
    LET acc == protocol_data(pools, k - 1)
        pool == pools[k]
        project == lower(pool.project)
        tvl == pool_tvl(pool).v
        borrow_tvl == pool_borrow_tvl(pool).v
        supply_tvl == pool_supply_tvl(pool).v
        entry == [ symbol |-> pool.symbol,
                   utilization |-> ratio_or_zero(borrow_tvl, supply_tvl) ]
        fresh == [ protocol |-> project, pools |-> <<>>,
                   total_tvl |-> 0, total_borrow |-> 0, total_supply |-> 0 ]
        seen == \E i \in 1..Len(acc) : acc[i].protocol = project
        data == IF seen THEN acc ELSE Append(acc, fresh)
        at == CHOOSE i \in 1..Len(data) : data[i].protocol = project
    IN  IF project \notin TRACKED_LENDING THEN acc
        ELSE [data EXCEPT ![at] =
                [ protocol |-> project,
                  pools |-> Append(data[at].pools, entry),
                  total_tvl |-> data[at].total_tvl + tvl,
                  total_borrow |-> data[at].total_borrow + borrow_tvl,
                  total_supply |-> data[at].total_supply + supply_tvl ]]

\* Mutant: the protocol's utilization as the mean of its pools' utilizations.
RECURSIVE sum_utilization(_, _)
sum_utilization(ps, k) ==
    IF k = 0 THEN [n |-> 0, d |-> 1]
    ELSE LET a == sum_utilization(ps, k - 1)
             u == ps[k].utilization
         IN  Frac(a.n * u.d + u.n * a.d, a.d * u.d)

protocol_entry_mean(d) ==
    LET s == sum_utilization(d.pools, Len(d.pools))
        util == Frac(s.n, s.d * Len(d.pools))
    IN  [ protocol |-> d.protocol,
          tvl_usd_bn |-> RoundDiv(d.total_tvl * 1000, 1000),
          total_borrow_usd_bn |-> RoundDiv(d.total_borrow * 1000, 1000),
          utilization |-> RoundDiv(util.n * 10000, util.d),
          utilization_pct |-> RoundDiv(util.n * 100 * 100, util.d),
          stress_level |-> util_stress(util),
          pool_count |-> Len(d.pools) ]

\* The entry appended to `protocols` for one protocol_data value.
\* tvl_usd_bn and total_borrow_usd_bn have 3 decimals, utilization 4.
protocol_entry(d) ==
    LET util == ratio_or_zero(d.total_borrow, d.total_supply)
    IN  [ protocol |-> d.protocol,
          tvl_usd_bn |-> RoundDiv(d.total_tvl * 1000, 1000),
          total_borrow_usd_bn |-> RoundDiv(d.total_borrow * 1000, 1000),
          utilization |-> RoundDiv(util.n * 10000, util.d),
          utilization_pct |-> RoundDiv(util.n * 100 * 100, util.d),
          stress_level |-> util_stress(util),
          pool_count |-> Len(d.pools) ]

\* Mutant: the utilizations summed without their TVL weight.
RECURSIVE leverage_totals_unweighted(_, _)
leverage_totals_unweighted(pd, k) ==
    IF k = 0 THEN [total_tvl |-> 0, weighted_util |-> [n |-> 0, d |-> 1]]
    ELSE LET acc == leverage_totals_unweighted(pd, k - 1)
             util == ratio_or_zero(pd[k].total_borrow, pd[k].total_supply)
             w == acc.weighted_util
         IN  [ total_tvl |-> acc.total_tvl + pd[k].total_tvl,
               weighted_util |-> Frac(w.n * util.d + util.n * w.d, w.d * util.d) ]

\* total_tvl and weighted_util (a fraction) after the loop over the first k
\* protocols.
RECURSIVE leverage_totals(_, _)
leverage_totals(pd, k) ==
    IF k = 0 THEN [total_tvl |-> 0, weighted_util |-> [n |-> 0, d |-> 1]]
    ELSE LET acc == leverage_totals(pd, k - 1)
             util == ratio_or_zero(pd[k].total_borrow, pd[k].total_supply)
             w == acc.weighted_util
         IN  [ total_tvl |-> acc.total_tvl + pd[k].total_tvl,
               weighted_util |->
                   Frac(w.n * util.d + pd[k].total_tvl * util.n * w.d,
                        w.d * util.d) ]

entry_utilization(x) == x.utilization

build_leverage_heatmap(pools) ==
    IF \E i \in 1..Len(pools) : pool_raises(pools[i])
    THEN Raise("TypeError")
    ELSE
    LET pd == protocol_data(pools, Len(pools))
        protocols == [i \in 1..Len(pd) |-> protocol_entry(pd[i])]
        acc == leverage_totals(pd, Len(pd))
        total_tvl == acc.total_tvl
        system_util == IF total_tvl > 0
                       THEN Frac(acc.weighted_util.n,
                                 acc.weighted_util.d * total_tvl)
                       ELSE [n |-> 0, d |-> 1]
    IN  [ system_leverage_index |-> RoundDiv(system_util.n * 10000, system_util.d),
          system_leverage_pct |-> RoundDiv(system_util.n * 100 * 100, system_util.d),
          system_stress_level |-> util_stress(system_util),
          total_lending_tvl_usd_bn |-> RoundDiv(total_tvl * 100, 1000),
          protocols |-> SortedDesc(protocols, entry_utilization) ]

(* ------------------------------------------------------------------ *)
(* bridge.py                                                          *)
(* ------------------------------------------------------------------ *)

\* _hhi_level's boundaries.
HhiHighlyConcentrated == 2500

HhiModeratelyConcentrated == 1500

\* build_bridge_risk_report's boundaries on the reported HHI.
RiskHighHhi == 3000

RiskModerateHhi == 1500

\* detect_bridge_anomalies: severity is CRITICAL above an outflow ratio of
\* 0.40 (in percent).
AnomalyCriticalPct == 40

\* top_bridges keeps the first 10 entries.
TopBridges == 10

\* The HHI is kept in tenths: 10000 * 10.
HhiScale == 100000

\* Mutant: the shares summed without squaring them.
hhi_tenths_linear(tvls, total) ==
    [whole |-> HhiScale, hi |-> 0, lo |-> 0, total |-> total]

\* hhi = sum((tvl / total) ** 2) * 10000 in tenths, exactly, as
\* whole + (hi * total + lo) / total ** 2 with hi, lo < total.
hhi_tenths(tvls, total) ==
    LET sq == [i \in 1..Len(tvls) |-> MulDivMod(tvls[i], tvls[i], total)]
        rsum == SumSeq([i \in 1..Len(sq) |-> sq[i].r])
        A == SumSeq([i \in 1..Len(sq) |-> sq[i].q]) + rsum \div total
        pa == MulDivMod(HhiScale, A, total)
        pb == MulDivMod(HhiScale, rsum % total, total)
        mid == pa.r + pb.q
    IN  [ whole |-> pa.q + mid \div total, hi |-> mid % total, lo |-> pb.r,
          total |-> total ]

\* round(hhi, 1) in tenths, ties to even.
round_tenths(x) ==
    LET k == 2 * x.hi + (2 * x.lo) \div x.total
        e == (2 * x.lo) % x.total
    IN  IF k < x.total THEN x.whole
        ELSE IF k > x.total \/ e > 0 THEN x.whole + 1
        ELSE IF x.whole % 2 = 0 THEN x.whole ELSE x.whole + 1

\* Mutant: the tier boundaries exclusive.
hhi_level_strict(x) ==
    IF x.whole > HhiHighlyConcentrated * 10
          \/ (x.whole = HhiHighlyConcentrated * 10 /\ x.hi + x.lo > 0)
    THEN "HIGHLY_CONCENTRATED"
    ELSE IF x.whole > HhiModeratelyConcentrated * 10
          \/ (x.whole = HhiModeratelyConcentrated * 10 /\ x.hi + x.lo > 0)
    THEN "MODERATELY_CONCENTRATED"
    ELSE "COMPETITIVE"

\* _hhi_level(hhi), hhi in tenths as hhi_tenths gives it.
hhi_level(x) ==
    IF x.whole >= HhiHighlyConcentrated * 10 THEN "HIGHLY_CONCENTRATED"
    ELSE IF x.whole >= HhiModeratelyConcentrated * 10 THEN "MODERATELY_CONCENTRATED"
    ELSE "COMPETITIVE"

\* float(b.get("currentTotalVolume", 0) or 0)
bridge_tvl(b) == py_or(b.currentTotalVolume, Num(0))

\* float(bridge.get("lastDailyVolume", 0) or 0)
bridge_daily_vol(b) == py_or(b.lastDailyVolume, Num(0))

bridge_entry_tvl(x) == x.tvl_usd_bn

bridge_entry_share(x) == x.share_pct

anomaly_outflow_pct(x) == x.outflow_pct

calc_bridge_concentration(bridges) ==
    IF \E i \in 1..Len(bridges) : ~IsNum(bridge_tvl(bridges[i]))
    THEN Raise("ValueError")
    ELSE
    LET all == [i \in 1..Len(bridges) |->
                    [name |-> bridges[i].name, tvl |-> bridge_tvl(bridges[i]).v]]
        positive(x) == x.tvl > 0
        tvls == SelectSeq(all, positive)
        total == SumSeq([i \in 1..Len(tvls) |-> tvls[i].tvl])
        hhi == hhi_tenths([i \in 1..Len(tvls) |-> tvls[i].tvl], total)
        entries == [i \in 1..Len(tvls) |->
                      [ name |-> tvls[i].name,
                        tvl_usd_bn |-> RoundDiv(tvls[i].tvl * 1000, 1),
                        share_pct |-> RoundMulDiv(100 * 100, tvls[i].tvl, total) ]]
        ranked == SortedDesc(SortedDesc(entries, bridge_entry_tvl), bridge_entry_share)
    IN  IF total = 0 THEN [error |-> "No bridge TVL data"]
        ELSE [ hhi |-> round_tenths(hhi),
               concentration_level |-> hhi_level(hhi),
               total_bridge_tvl_usd_bn |-> RoundDiv(total * 100, 1),
               bridge_count |-> Len(tvls),
               top_bridges |->
                   SubSeq(ranked, 1, IF Len(ranked) < TopBridges
                                     THEN Len(ranked) ELSE TopBridges) ]

\* Mutant: the threshold test exclusive.
detect_bridge_anomalies_exclusive(bridges, drop_threshold_pct) ==
    LET all == [i \in 1..Len(bridges) |->
                    [ bridge |-> bridges[i].name,
                      current |-> bridge_tvl(bridges[i]).v,
                      daily_vol |-> bridge_daily_vol(bridges[i]).v ]]
        flagged(x) == /\ x.current > 0
                      /\ Abs(x.daily_vol) * 100 > drop_threshold_pct * x.current
        hits == SelectSeq(all, flagged)
        anomalies == [i \in 1..Len(hits) |->
                        [ bridge |-> hits[i].bridge,
                          tvl_usd_bn |-> RoundDiv(hits[i].current * 1000, 1),
                          daily_volume_usd_bn |-> RoundDiv(hits[i].daily_vol * 1000, 1),
                          outflow_pct |->
                              RoundDiv(Abs(hits[i].daily_vol) * 100 * 100, hits[i].current),
                          severity |->
                              IF Abs(hits[i].daily_vol) * 100
                                     > AnomalyCriticalPct * hits[i].current
                              THEN "CRITICAL" ELSE "WARNING" ]]
    IN  SortedDesc(anomalies, anomaly_outflow_pct)

\* The list detect_bridge_anomalies returns; drop_threshold_pct in percent.
\* outflow_pct has 2 decimals.
detect_bridge_anomalies(bridges, drop_threshold_pct) ==
    LET all == [i \in 1..Len(bridges) |->
                    [ bridge |-> bridges[i].name,
                      current |-> bridge_tvl(bridges[i]).v,
                      daily_vol |-> bridge_daily_vol(bridges[i]).v ]]
        flagged(x) == /\ x.current > 0
                      /\ Abs(x.daily_vol) * 100 >= drop_threshold_pct * x.current
        hits == SelectSeq(all, flagged)
        anomalies == [i \in 1..Len(hits) |->
                        [ bridge |-> hits[i].bridge,
                          tvl_usd_bn |-> RoundDiv(hits[i].current * 1000, 1),
                          daily_volume_usd_bn |-> RoundDiv(hits[i].daily_vol * 1000, 1),
                          outflow_pct |->
                              RoundDiv(Abs(hits[i].daily_vol) * 100 * 100, hits[i].current),
                          severity |->
                              IF Abs(hits[i].daily_vol) * 100
                                     > AnomalyCriticalPct * hits[i].current
                              THEN "CRITICAL" ELSE "WARNING" ]]
    IN  SortedDesc(anomalies, anomaly_outflow_pct)

\* concentration.get("hhi", 0), in the report's unit (one decimal).
reported_hhi(concentration) ==
    IF "hhi" \in DOMAIN concentration THEN concentration.hhi ELSE 0

\* Mutant: the empty-input guard of lines 117-118 left out.
build_bridge_risk_report_unguarded(bridges, drop_threshold_pct) ==
    LET concentration == calc_bridge_concentration(bridges)
        anomalies == detect_bridge_anomalies(bridges, drop_threshold_pct)
    IN  IF \E i \in 1..Len(bridges) :
                \/ ~IsNum(bridge_tvl(bridges[i]))
                \/ ~IsNum(bridge_daily_vol(bridges[i]))
        THEN Raise("ValueError")
        ELSE [ overall_bridge_risk |->
                   IF anomalies # <<>> \/ reported_hhi(concentration) > RiskHighHhi * 10
                   THEN "HIGH"
                   ELSE IF reported_hhi(concentration) > RiskModerateHhi * 10
                   THEN "MODERATE"
                   ELSE "LOW",
               concentration |-> concentration,
               anomaly_count |-> Len(anomalies),
               anomalies |-> anomalies ]

build_bridge_risk_report(bridges, drop_threshold_pct) ==
    IF bridges = <<>>
    THEN [error |-> "No bridge data available from DeFiLlama."]
    ELSE IF \E i \in 1..Len(bridges) :
                \/ ~IsNum(bridge_tvl(bridges[i]))
                \/ ~IsNum(bridge_daily_vol(bridges[i]))
    THEN Raise("ValueError")
    ELSE
    LET concentration == calc_bridge_concentration(bridges)
        anomalies == detect_bridge_anomalies(bridges, drop_threshold_pct)
        overall_risk ==
            IF anomalies # <<>> \/ reported_hhi(concentration) > RiskHighHhi * 10
            THEN "HIGH"
            ELSE IF reported_hhi(concentration) > RiskModerateHhi * 10
            THEN "MODERATE"
            ELSE "LOW"
    IN  [ overall_bridge_risk |-> overall_risk,
          concentration |-> concentration,
          anomaly_count |-> Len(anomalies),
          anomalies |-> anomalies ]

(* ------------------------------------------------------------------ *)
(* liquidation.py                                                     *)
(* ------------------------------------------------------------------ *)

\* A drop fraction of 1.0 in drop units (1/1000).
FullDrop == 1000

\* A liquidation threshold of 1.0 in basis points (raw / 1e4).
ThresholdScale == 10000

\* top_liquidatable_assets keeps the first 5 entries.
TopAssets == 5

\* _safe_float(val): float(None) raises TypeError and float("n/a") raises
\* ValueError, both caught and answered with 0.0.
safe_float(val) == IF IsNum(val) THEN val.v ELSE 0

\* int(x) for x = n / d, d > 0: truncation toward zero.
int_trunc(n, d) == IF n >= 0 THEN n \div d ELSE -((-n) \div d)

\* The drop fractions with at most 3 decimals in [0, 1] whose float product
\* drop*100 falls just below the integer it would be exactly: 0.29*100 is
\* 28.999999999999996, 0.57*100 and 0.58*100 likewise.
FloatShortDrops == {290, 570, 580}

\* The number k in the key f"drop_{int(drop*100)}pct"; the key is one-to-one
\* in k. int() truncates the float product.
scenario_key(drop) ==
    IF drop \in FloatShortDrops
    THEN int_trunc(drop * 100, FullDrop) - 1
    ELSE int_trunc(drop * 100, FullDrop)

\* amount * (price * (1 - drop)): with the amount in 1e5 tokens and the price
\* in 1000 USD the value is in 1e5 USD (1e-4 bn), with the price in USD it is
\* in 100 USD.
stressed_usd(amount, price, drop) == amount * price * (FullDrop - drop)

\* usd_val of one collateral entry, in 100 USD: the price is
\* stressed_prices.get(symbol, stressed_eth_usd if symbol == "WETH" else 1.0).
collateral_usd_val(col, asset_prices, eth_price_usd, drop) ==
    LET bal_raw == safe_float(col.currentATokenBalance)
    IN  IF col.symbol \in DOMAIN asset_prices
        THEN stressed_usd(bal_raw, asset_prices[col.symbol], drop)
        ELSE IF col.symbol = "WETH"
        THEN stressed_usd(bal_raw, eth_price_usd * 1000, drop)
        ELSE stressed_usd(bal_raw, 1, 0)

\* Mutant: a position is considered as soon as it has debt.
position_considered_with_debt(pos) == safe_float(pos.totalDebtETH) > 0

\* The validity test of a position (line 85 negated).
position_considered(pos) ==
    /\ safe_float(pos.totalCollateralETH) > 0
    /\ safe_float(pos.totalDebtETH) > 0
    /\ safe_float(pos.currentLiquidationThreshold) > 0

\* stressed_hf is a float quotient. Where collateral * threshold equals the
\* debt exactly, the quotient is 1.0 or the float just below it, depending on
\* the stressed price both were multiplied with. The cases
\* <<collateral, debt, threshold, eth_price_usd, drop>> of the positions below
\* in which it falls below 1.0: collateral 1e24, debt 7e23 and threshold 7000
\* at drops 0.28 and 0.29 (and at no other drop listed; collateral 5e23,
\* debt 4e23 and threshold 8000 give 1.0 at every one of them).
FloatShortHealth == {<<10, 7, 7000, 2, 280>>, <<10, 7, 7000, 2, 290>>}

\* stressed_hf < 1.0, with stressed_hf = inf when debt_usd <= 0.
position_liquidatable(pos, eth_price_usd, drop) ==
    LET collateral_usd == stressed_usd(safe_float(pos.totalCollateralETH), eth_price_usd, drop)
        debt_usd == stressed_usd(safe_float(pos.totalDebtETH), eth_price_usd, drop)
        liq_threshold == safe_float(pos.currentLiquidationThreshold)
    IN  /\ debt_usd > 0
        /\ \/ collateral_usd * liq_threshold < ThresholdScale * debt_usd
           \/ << safe_float(pos.totalCollateralETH), safe_float(pos.totalDebtETH),
                 liq_threshold, eth_price_usd, drop >> \in FloatShortHealth

\* liquidatable_by_asset (insertion-ordered) after adding usd_val for symbol.
add_asset(by_asset, symbol, usd_val) ==
    IF \E i \in 1..Len(by_asset) : by_asset[i].symbol = symbol
    THEN [i \in 1..Len(by_asset) |->
            IF by_asset[i].symbol = symbol
            THEN [symbol |-> symbol, usd |-> by_asset[i].usd + usd_val]
            ELSE by_asset[i]]
    ELSE Append(by_asset, [symbol |-> symbol, usd |-> usd_val])

RECURSIVE add_collateral(_, _, _, _, _, _)
add_collateral(by_asset, cols, k, asset_prices, eth_price_usd, drop) ==
    IF k = 0 THEN by_asset
    ELSE add_asset(add_collateral(by_asset, cols, k - 1, asset_prices, eth_price_usd, drop),
                   cols[k].symbol,
                   collateral_usd_val(cols[k], asset_prices, eth_price_usd, drop))

\* Mutant: total_collateral counts only the positions that stay healthy.
RECURSIVE cascade_totals_healthy_only(_, _, _, _, _)
cascade_totals_healthy_only(positions, k, asset_prices, eth_price_usd, drop) ==
    IF k = 0
    THEN [ liquidatable_count |-> 0, liquidatable_usd |-> 0,
           total_collateral |-> 0, liquidatable_by_asset |-> <<>> ]
    ELSE
    LET acc == cascade_totals_healthy_only(positions, k - 1, asset_prices,
                                           eth_price_usd, drop)
        pos == positions[k]
        collateral_usd == stressed_usd(safe_float(pos.totalCollateralETH), eth_price_usd, drop)
    IN  IF ~position_considered(pos) THEN acc
        ELSE IF ~position_liquidatable(pos, eth_price_usd, drop)
        THEN [acc EXCEPT !.total_collateral = @ + collateral_usd]
        ELSE [ liquidatable_count |-> acc.liquidatable_count + 1,
               liquidatable_usd |-> acc.liquidatable_usd + collateral_usd,
               total_collateral |-> acc.total_collateral,
               liquidatable_by_asset |->
                   add_collateral(acc.liquidatable_by_asset, pos.collateral,
                                  Len(pos.collateral), asset_prices, eth_price_usd, drop) ]

\* The accumulators of _calc_cascade after the loop over the first k positions.
RECURSIVE cascade_totals(_, _, _, _, _)
cascade_totals(positions, k, asset_prices, eth_price_usd, drop) ==
    IF k = 0
    THEN [ liquidatable_count |-> 0, liquidatable_usd |-> 0,
           total_collateral |-> 0, liquidatable_by_asset |-> <<>> ]
    ELSE
    LET acc == cascade_totals(positions, k - 1, asset_prices, eth_price_usd, drop)
        pos == positions[k]
        collateral_usd == stressed_usd(safe_float(pos.totalCollateralETH), eth_price_usd, drop)
    IN  IF ~position_considered(pos) THEN acc
        ELSE IF ~position_liquidatable(pos, eth_price_usd, drop)
        THEN [acc EXCEPT !.total_collateral = @ + collateral_usd]
        ELSE [ liquidatable_count |-> acc.liquidatable_count + 1,
               liquidatable_usd |-> acc.liquidatable_usd + collateral_usd,
               total_collateral |-> acc.total_collateral + collateral_usd,
               liquidatable_by_asset |->
                   add_collateral(acc.liquidatable_by_asset, pos.collateral,
                                  Len(pos.collateral), asset_prices, eth_price_usd, drop) ]

asset_usd(x) == x.usd

\* _calc_cascade(positions, dropped_prices, eth_price_usd * (1 - drop)).
\* USD values are reported in bn with 4 decimals (1e5 USD).
calc_cascade(positions, asset_prices, eth_price_usd, drop) ==
    LET acc == cascade_totals(positions, Len(positions), asset_prices, eth_price_usd, drop)
        ranked == SortedDesc(acc.liquidatable_by_asset, asset_usd)
        top_assets == SubSeq(ranked, 1, IF Len(ranked) < TopAssets
                                        THEN Len(ranked) ELSE TopAssets)
    IN  [ liquidatable_positions |-> acc.liquidatable_count,
          liquidatable_usd_bn |-> RoundDiv(acc.liquidatable_usd, 1),
          total_collateral_usd_bn |-> RoundDiv(acc.total_collateral, 1),
          cascade_pct_of_tvl |->
              IF acc.total_collateral > 0
              THEN Num(RoundDiv(acc.liquidatable_usd * 100 * 100, acc.total_collateral))
              ELSE None,
          top_liquidatable_assets |->
              [i \in 1..Len(top_assets) |->
                  [ symbol |-> top_assets[i].symbol,
                    usd_bn |-> RoundDiv(top_assets[i].usd, 1000) ]] ]

\* `results` after the loop over drop_pcts: a later drop with the same key
\* overwrites the earlier one.
scenario_results(positions, asset_prices, drop_pcts, eth_price_usd) ==
    LET keys == {scenario_key(drop_pcts[i]) : i \in 1..Len(drop_pcts)}
        last(k) == CHOOSE i \in 1..Len(drop_pcts) :
                      /\ scenario_key(drop_pcts[i]) = k
                      /\ \A j \in 1..Len(drop_pcts) :
                            scenario_key(drop_pcts[j]) = k => j <= i
    IN  [k \in keys |->
            calc_cascade(positions, asset_prices, eth_price_usd, drop_pcts[last(k)])]

simulate_cascade(positions, asset_prices, drop_pcts, eth_price_usd) ==
    IF positions = <<>>
    THEN [error |-> "No position data available from The Graph."]
    ELSE [ total_positions_analyzed |-> Len(positions),
           scenarios |-> scenario_results(positions, asset_prices, drop_pcts, eth_price_usd),
           methodology |-> "Aave V3 positions re-priced at hypothetical collateral drops." ]

\* The categories estimate_cascade_from_tvl sums over.
LENDING_CATEGORIES == {"lending", "cdp"}

\* The label of the fallback estimate.
TVL_PROXY_METHOD == "TVL-proxy (no Graph data)"

\* A protocol is summed when p.get("category", "").lower() is lending or cdp.
is_lending(p) == lower(p.category) \in LENDING_CATEGORIES

\* The protocols the sum of lines 134-137 runs over.
lending_protocols(protocol_tvls) == SelectSeq(protocol_tvls, is_lending)

\* estimate_cascade_from_tvl(protocol_tvls, drop_pcts, avg_ltv): TVL in
\* 1e7 USD (0.01 bn), drops in 1/1000, avg_ltv in percent. The sum raises
\* TypeError on a non-numeric TVL, the division ZeroDivisionError when
\* avg_ltv is 0 and a scenario is computed; a later drop with the same key
\* overwrites the earlier one.
estimate_cascade_from_tvl(protocol_tvls, drop_pcts, avg_ltv) ==
    LET lending == lending_protocols(protocol_tvls)
        lending_tvl == SumSeq([i \in 1..Len(lending) |-> lending[i].tvl.v])
        keys == {scenario_key(drop_pcts[i]) : i \in 1..Len(drop_pcts)}
        last(k) == CHOOSE i \in 1..Len(drop_pcts) :
                      /\ scenario_key(drop_pcts[i]) = k
                      /\ \A j \in 1..Len(drop_pcts) :
                            scenario_key(drop_pcts[j]) = k => j <= i
    IN  IF \E i \in 1..Len(lending) : ~IsNum(lending[i].tvl)
        THEN Raise("TypeError")
        ELSE IF avg_ltv = 0 /\ drop_pcts # <<>>
        THEN Raise("ZeroDivisionError")
        ELSE [ method |-> TVL_PROXY_METHOD,
               lending_tvl_usd_bn |-> RoundDiv(lending_tvl, 1),
               avg_ltv_assumption |-> avg_ltv,
               scenarios |->
                   [k \in keys |->
                       [ estimated_liquidatable_usd_bn |->
                             RoundDiv(lending_tvl * drop_pcts[last(k)], 10 * avg_ltv) ]] ]

(* ------------------------------------------------------------------ *)
(* Inputs                                                             *)
(* ------------------------------------------------------------------ *)

\* Longest input list of each analyzer.
MaxCoins == 3

MaxPools == 3

MaxBridges == 3

MaxPositions == 2

MaxDrops == 2

Coin(id, price, mcap) == [id |-> id, current_price |-> price, market_cap |-> mcap]

\* MarketAsset records: the three coins of the spec's scenario (caps 50/30/20
\* at 1.001/0.994/1.03), coins on the boundaries 0.005 and 0.02, a pair whose
\* index is exactly 0.02 (1.5 at cap 1, 1.0 at cap 24), and malformed ones.
MarketAssets ==
    { Coin("usdt", Num(1001), Num(50)),
      Coin("usdc", Num(994), Num(30)),
      Coin("dai", Num(1030), Num(20)),
      Coin("frax", Num(1500), Num(1)),
      Coin("tusd", Num(1000), Num(24)),
      Coin("busd", Num(1020), Num(10)),
      Coin("lusd", Num(995), Num(0)),
      Coin("usdd", Num(1010), Num(10)),
      Coin("susd", Num(1000), Num(-5)),
      Coin("gusd", None, None),
      Coin("usdp", Num(0), Num(5)),
      Coin("fei", Invalid, Num(1)),
      Coin("mim", Num(1000), Invalid) }

\* (warn_threshold, critical_threshold) in price units; the first is the
\* configured default (0.005, 0.02).
PegThresholds == {<<5, 20>>, <<10, 10>>}

Pool(project, symbol, tvl, borrow, borrowTvl, supply) ==
    [ project |-> project, symbol |-> symbol, tvlUsd |-> tvl,
      totalBorrowUsd |-> borrow, borrowTvl |-> borrowTvl, totalSupplyUsd |-> supply ]

\* Lending pools: utilizations exactly on 0.50, 0.65, 0.80 and 0.90, a
\* protocol under two spellings, missing and negative figures, an explicit
\* supply of 0, non-numeric fields, and untracked protocols.
LendingPools ==
    { Pool("aave-v3", "USDC", Num(100), Num(50), None, None),
      Pool("Aave-V3", "WETH", Num(100), Num(90), None, Num(100)),
      Pool("venus", "BNB", Num(50), None, Num(40), Num(50)),
      Pool("venus", "USDT", None, None, None, Num(0)),
      Pool("compound-v3", "USDC", Num(40), Num(36), None, Num(40)),
      Pool("spark", "DAI", Num(-20), Num(10), None, Num(10)),
      Pool("spark", "WETH", Num(30), Num(-10), None, Num(20)),
      Pool("aave-v3", "DAI", Invalid, Num(5), None, Num(10)),
      Pool("uniswap", "WETH", Num(500), Invalid, None, Num(500)),
      Pool("Uniswap", "USDC", Num(200), Num(100), None, Num(200)),
      Pool("euler", "USDC", Num(20), Num(13), None, Num(20)),
      Pool("morpho-blue", "WETH", Num(100), Num(50), None, Num(0)) }

Bridge(name, current, daily) ==
    [name |-> name, currentTotalVolume |-> current, lastDailyVolume |-> daily]

\* Bridge records: the spec's scenario (8 and 2), equal bridges, outflows of
\* exactly 20%, 40% and 50%, bridges without positive locked value, malformed
\* ones, and one 400000 times the size of the smallest.
BridgeRecords ==
    { Bridge("wormhole", Num(8), Num(0)),
      Bridge("stargate", Num(2), Num(-1)),
      Bridge("across", Num(5), Num(1)),
      Bridge("hop", Num(5), Num(-2)),
      Bridge("synapse", Num(0), Num(3)),
      Bridge("celer", None, None),
      Bridge("multichain", Num(-4), Num(1)),
      Bridge("nomad", Invalid, Num(0)),
      Bridge("ronin", Num(5), Invalid),
      Bridge("portal", Num(800000), Num(0)) }

\* A market of quiet bridges (no daily volume) with the given locked values.
Market(tvls) == [i \in 1..Len(tvls) |-> Bridge("quiet", Num(tvls[i]), Num(0))]

\* Longer bridge lists: none, or a market whose HHI is 2500, exactly 3000,
\* 3000.048, 1428.6, exactly 1500 or 1500.048.
BridgeMarkets ==
    { <<>>,
      Market(<<5, 5, 5, 5>>),
      Market(<<1, 2, 3, 4>>),
      Market(<<38, 76, 115, 152>>),
      Market(<<1, 1, 1, 1, 1, 1, 1>>),
      Market(<<2, 2, 3, 3, 3, 3, 4>>),
      Market(<<42, 42, 63, 63, 63, 64, 84>>) }

\* drop_threshold_pct in percent; 20 is the configured default.
BridgeThresholds == {20, 50}

Position(coll, debt, threshold, cols) ==
    [ totalCollateralETH |-> coll, totalDebtETH |-> debt,
      currentLiquidationThreshold |-> threshold, collateral |-> cols ]

Collateral(symbol, balance) == [symbol |-> symbol, currentATokenBalance |-> balance]

LendingPositions ==
    { Position(Num(10), Num(10), Num(8000), <<Collateral("WETH", Num(10))>>),
      Position(Num(10), Num(5), Num(8000), <<Collateral("USDC", Num(5))>>),
      Position(Num(5), Num(4), Num(8000), <<Collateral("WETH", Num(5))>>),
      Position(Num(4), Num(6), Num(7500),
               <<Collateral("LINK", Num(2)), Collateral("WETH", Invalid)>>),
      Position(Num(0), Num(5), Num(8000), <<Collateral("WETH", Num(1))>>),
      Position(Invalid, None, Num(8000), <<>>),
      Position(Num(3), Num(4), Num(0), <<Collateral("WBTC", Num(1))>>),
      Position(Num(10), Num(7), Num(7000), <<Collateral("WETH", Num(10))>>) }

\* The price maps: the one run_pipeline builds (eth_price 2000, WBTC at 15 times
\* it, three stablecoins at 1.0) and one without WETH.
AssetPrices ==
    { [s \in {"WETH", "WBTC", "USDC", "USDT", "DAI"} |->
          CASE s = "WETH" -> 2000 [] s = "WBTC" -> 30000 [] OTHER -> 1],
      [s \in {"USDC"} |-> 1] }

\* Drop fractions: 0, 0.10, 0.20, 0.205, 0.28, 0.29, 0.40 and 1.0.
DropFractions == {0, 100, 200, 205, 280, 290, 400, 1000}

\* eth_price_usd: 2000 USD, the default and what run_pipeline passes.
EthPrices == {2}

MaxProtocols == 3

Protocol(name, category, tvl) == [name |-> name, category |-> category, tvl |-> tvl]

\* Protocol TVL records: lending of 6 bn and a CDP of 4 bn (10 bn together),
\* a lower-case category, a DEX, a record without category and a lending
\* protocol whose TVL is not a number.
ProtocolTvls ==
    { Protocol("aave", "Lending", Num(600)),
      Protocol("maker", "CDP", Num(400)),
      Protocol("venus", "lending", Num(50)),
      Protocol("uniswap", "Dexes", Num(900)),
      Protocol("unknown", "", Num(30)),
      Protocol("radiant", "Lending", Invalid) }

\* avg_ltv in percent: the default 0.70, and 0.
AvgLtvs == {70, 0}

(* ------------------------------------------------------------------ *)
(* The calls                                                          *)
(* ------------------------------------------------------------------ *)

NoReport == [pending |-> TRUE]

\* No run_pipeline is under way: there is no payload and no file.
NoPayload == [absent |-> TRUE]

NoFile == [missing |-> TRUE]

NoFiles == [latest |-> NoFile, snapshot |-> NoFile]

\* Mutant: analyse_pegs ranks its input list in place.
arguments_sorted_in_place(a) ==
    IF "data" \in DOMAIN a
    THEN LET deviation(coin) == Abs(safe_number(coin_price(coin)) - Peg)
         IN  [a EXCEPT !.data = SortedDesc(a.data, deviation)]
    ELSE a

\* The arguments as the call leaves them to its caller. No analyzer assigns
\* to, sorts or appends to an argument: the rankings are built with sorted()
\* on lists the call created (stablecoin.py:93, leverage.py:121,
\* bridge.py:55-60 and 110, liquidation.py:108) and the input records are
\* only read with .get().
arguments_after(a) == a

\* The entry the log keeps of one analyzer call: the function, the arguments
\* it was given, the arguments as it left them and what it returned.
Call(f, a, left, r) == [fn |-> f, args |-> a, left |-> left, report |-> r]

Init ==
    /\ pc = "call"
    /\ report = NoReport
    /\ calls = <<>>
    /\ payload = NoPayload
    /\ published = NoFiles
    /\ \/ /\ fn = "analyse_pegs"
          /\ \E data \in SeqsUpTo(MarketAssets, MaxCoins), th \in PegThresholds :
                args = [ data |-> data, warn_threshold |-> th[1],
                         critical_threshold |-> th[2] ]
       \/ /\ fn = "build_leverage_heatmap"
          /\ \E pools \in SeqsUpTo(LendingPools, MaxPools) : args = [pools |-> pools]
       \/ /\ fn = "build_bridge_risk_report"
          /\ \E bridges \in SeqsUpTo(BridgeRecords, MaxBridges),
                market \in BridgeMarkets, th \in BridgeThresholds :
                args = [bridges |-> bridges \o market, drop_threshold_pct |-> th]
       \/ /\ fn = "simulate_cascade"
          /\ \E positions \in SeqsUpTo(LendingPositions, MaxPositions),
                prices \in AssetPrices,
                drops \in SeqsUpTo(DropFractions, MaxDrops),
                eth \in EthPrices :
                args = [ positions |-> positions, asset_prices_usd |-> prices,
                         drop_pcts |-> drops, eth_price_usd |-> eth ]
       \/ /\ fn = "estimate_cascade_from_tvl"
          /\ \E protocols \in SeqsUpTo(ProtocolTvls, MaxProtocols),
                drops \in SeqsUpTo(DropFractions, MaxDrops),
                ltv \in AvgLtvs :
                args = [ protocol_tvls |-> protocols, drop_pcts |-> drops,
                         avg_ltv |-> ltv ]

call_analyse_pegs ==
    /\ pc = "call"
    /\ fn = "analyse_pegs"
    /\ report' = analyse_pegs(args.data, args.warn_threshold, args.critical_threshold)
    /\ args' = arguments_after(args)
    /\ calls' = Append(calls, Call(fn, args, args', report'))
    /\ pc' = "done"
    /\ UNCHANGED <<fn, payload, published>>

call_build_leverage_heatmap ==
    /\ pc = "call"
    /\ fn = "build_leverage_heatmap"
    /\ report' = build_leverage_heatmap(args.pools)
    /\ args' = arguments_after(args)
    /\ calls' = Append(calls, Call(fn, args, args', report'))
    /\ pc' = "done"
    /\ UNCHANGED <<fn, payload, published>>

call_build_bridge_risk_report ==
    /\ pc = "call"
    /\ fn = "build_bridge_risk_report"
    /\ report' = build_bridge_risk_report(args.bridges, args.drop_threshold_pct)
    /\ args' = arguments_after(args)
    /\ calls' = Append(calls, Call(fn, args, args', report'))
    /\ pc' = "done"
    /\ UNCHANGED <<fn, payload, published>>

call_simulate_cascade ==
    /\ pc = "call"
    /\ fn = "simulate_cascade"
    /\ report' = simulate_cascade(args.positions, args.asset_prices_usd,
                                  args.drop_pcts, args.eth_price_usd)
    /\ args' = arguments_after(args)
    /\ calls' = Append(calls, Call(fn, args, args', report'))
    /\ pc' = "done"
    /\ UNCHANGED <<fn, payload, published>>

call_estimate_cascade_from_tvl ==
    /\ pc = "call"
    /\ fn = "estimate_cascade_from_tvl"
    /\ report' = estimate_cascade_from_tvl(args.protocol_tvls, args.drop_pcts, args.avg_ltv)
    /\ args' = arguments_after(args)
    /\ calls' = Append(calls, Call(fn, args, args', report'))
    /\ pc' = "done"
    /\ UNCHANGED <<fn, payload, published>>

Next ==
    \/ call_analyse_pegs
    \/ call_build_leverage_heatmap
    \/ call_build_bridge_risk_report
    \/ call_simulate_cascade
    \/ call_estimate_cascade_from_tvl

Spec == Init /\ [][Next]_vars

(* ------------------------------------------------------------------ *)
(* Claims                                                             *)
(* ------------------------------------------------------------------ *)

\* The call of analyzer f has returned a report (it did not raise).
Returned(f) == pc = "done" /\ fn = f /\ ~Raised(report)

\* The drop fractions of the call, and the scenario computed for one of them.
Drops == args.drop_pcts

Scenario(drop) == report.scenarios[scenario_key(drop)]

\* C1: for a fixed position list, price map and base-asset price, the
\* liquidatable USD value of simulate_cascade's scenarios is non-decreasing in
\* the drop: for drops d1 < d2 of the scenario list, the d2 scenario's
\* liquidatable USD is at least the d1 scenario's.
C1_LiquidatableMonotoneInDrop ==
    (Returned("simulate_cascade") /\ "scenarios" \in DOMAIN report) =>
        \A i, j \in 1..Len(Drops) :
            Drops[i] < Drops[j] =>
                Scenario(Drops[j]).liquidatable_usd_bn
                    >= Scenario(Drops[i]).liquidatable_usd_bn

\* A report that was computed: it carries the zero-value figures of its analyzer.
IsComputedPegReport(r) == "system_peg_stress_index" \in DOMAIN r

IsComputedLeverageReport(r) == "system_leverage_index" \in DOMAIN r

\* C2: analyse_pegs and build_leverage_heatmap, called with an empty list,
\* return a no-data sentinel (an error marker), neither a computed zero-value
\* report nor an exception.
C2_EmptyInputGivesSentinel ==
    /\ (pc = "done" /\ fn = "analyse_pegs" /\ args.data = <<>>) =>
            DOMAIN report = {"error"}
    /\ (pc = "done" /\ fn = "build_leverage_heatmap" /\ args.pools = <<>>) =>
            DOMAIN report = {"error"}

\* C3: build_bridge_risk_report and simulate_cascade, called with an empty
\* list, return a report holding only an error marker and do not raise; a
\* call with a non-empty list never returns such a report: it raises or it
\* returns the verdict (the scenarios) and no error marker.
C3_EmptyBridgeAndCascadeInput ==
    /\ (pc = "done" /\ fn = "build_bridge_risk_report") =>
            /\ args.bridges = <<>> => DOMAIN report = {"error"}
            /\ args.bridges # <<>> =>
                    \/ Raised(report)
                    \/ DOMAIN report = {"overall_bridge_risk", "concentration",
                                        "anomaly_count", "anomalies"}
    /\ (pc = "done" /\ fn = "simulate_cascade") =>
            /\ args.positions = <<>> => DOMAIN report = {"error"}
            /\ args.positions # <<>> =>
                    DOMAIN report = {"total_positions_analyzed", "scenarios",
                                     "methodology"}

C3_Witness ==
    /\ pc = "done"
    /\ fn = "build_bridge_risk_report"
    /\ args.bridges = <<>>
    /\ DOMAIN report = {"error"}

\* |price - 1.0| of a reported coin, in 1e-6 USD, and a threshold in that unit.
EntryAbsDeviation(c) == Abs(c.price_usd - 1000000)

Micro(th) == th * 1000

Tier(status) == CASE status = "STABLE" -> 0 [] status = "WARNING" -> 1 [] OTHER -> 2

EntryCap(c) == c.market_cap_usd_bn \div 1000

EntryDev(c) == EntryAbsDeviation(c) \div 1000

PegWeightedSum(coins) ==
    SumSeq([i \in 1..Len(coins) |-> EntryCap(coins[i]) * EntryDev(coins[i])])

PegTotalCap(coins) == SumSeq([i \in 1..Len(coins) |-> EntryCap(coins[i])])

\* The spec's scenario: caps 50/30/20 bn at 1.001/0.994/1.03, warn 0.005,
\* critical 0.02.
IsPegScenario ==
    /\ fn = "analyse_pegs"
    /\ args.data = << Coin("usdt", Num(1001), Num(50)),
                      Coin("usdc", Num(994), Num(30)),
                      Coin("dai", Num(1030), Num(20)) >>
    /\ args.warn_threshold = 5 /\ args.critical_threshold = 20

SeqMax(s) == CHOOSE m \in Range(s) : \A x \in Range(s) : x <= m

\* C6: when the total weight is positive the weighted index is within
\* [0, largest contributor]: the peg index within [0, max |deviation_i|], the
\* leverage index within [0, max utilization_p].
C6_IndexBoundedByMax ==
    /\ (Returned("analyse_pegs") /\ report.total_stablecoin_mcap_usd_bn > 0) =>
            LET devs == [i \in 1..Len(report.coins) |->
                            report.coins[i].peg_deviation_pct]
            IN  /\ 0 <= report.system_peg_stress_index
                /\ report.system_peg_stress_index <= 100 * SeqMax(devs)
    /\ (Returned("build_leverage_heatmap")
            /\ SumSeq([i \in 1..Len(report.protocols) |->
                          report.protocols[i].tvl_usd_bn]) > 0) =>
            LET utils == [i \in 1..Len(report.protocols) |->
                            report.protocols[i].utilization]
            IN  /\ 0 <= report.system_leverage_index
                /\ report.system_leverage_index <= SeqMax(utils)

\* A negative or missing value read as 0.
AsZero(x) == IF x.t = "none" \/ (x.t = "num" /\ x.v < 0) THEN Num(0) ELSE x

CoinAsZero(coin) == [coin EXCEPT !.market_cap = AsZero(@)]

PoolAsZero(pool) ==
    [pool EXCEPT !.tvlUsd = AsZero(@), !.totalBorrowUsd = AsZero(@),
                 !.borrowTvl = AsZero(@), !.totalSupplyUsd = AsZero(@)]

\* C7: a negative or missing market cap (TVL, borrowed or supplied value) is
\* treated exactly as the value 0: the totals and the index are those of the
\* input with such values replaced by 0, and the totals are never negative.
C7_NegativeTreatedAsZero ==
    /\ Returned("analyse_pegs") =>
            LET zeroed == analyse_pegs([i \in 1..Len(args.data) |-> CoinAsZero(args.data[i])],
                                       args.warn_threshold, args.critical_threshold)
            IN  /\ report.total_stablecoin_mcap_usd_bn >= 0
                /\ report.total_stablecoin_mcap_usd_bn = zeroed.total_stablecoin_mcap_usd_bn
                /\ report.system_peg_stress_index = zeroed.system_peg_stress_index
    /\ Returned("build_leverage_heatmap") =>
            LET zeroed == build_leverage_heatmap(
                              [i \in 1..Len(args.pools) |-> PoolAsZero(args.pools[i])])
            IN  /\ report.total_lending_tvl_usd_bn >= 0
                /\ report.total_lending_tvl_usd_bn = zeroed.total_lending_tvl_usd_bn
                /\ report.system_leverage_index = zeroed.system_leverage_index

\* C8: the system-level peg severity is a function of the system index S / W
\* alone, with boundaries 0.001, 0.005 and 0.02 inclusive at the higher tier
\* (an index of exactly 0.02 is CRITICAL, of exactly 0.005 ELEVATED).
C8_SystemTierInclusive ==
    Returned("analyse_pegs") =>
        LET S == PegWeightedSum(report.coins)
            W == PegTotalCap(report.coins)
        IN  report.system_stress_level =
                IF W <= 0 THEN "NORMAL"
                ELSE IF S >= 20 * W THEN "CRITICAL"
                ELSE IF S >= 5 * W THEN "ELEVATED"
                ELSE IF S >= 1 * W THEN "MILD"
                ELSE "NORMAL"

\* C9: no record with a missing, null or non-numeric field makes an analyzer
\* raise: every call returns a report.
C9_MalformedRecordNeverRaises == pc = "done" => ~Raised(report)

IsTracked(pool) == lower(pool.project) \in TRACKED_LENDING

NoInvalidField(pool) ==
    /\ pool.tvlUsd # Invalid
    /\ pool.totalBorrowUsd # Invalid
    /\ pool.borrowTvl # Invalid
    /\ pool.totalSupplyUsd # Invalid

\* C10: the protocols list has exactly one entry per tracked protocol with a
\* pool in the input and none for an untracked one; untracked pools raise no
\* error and change no figure of the report; no entry or pool is dropped, and
\* the list is in order of non-increasing utilization.
C10_TrackedProtocolsRanked ==
    /\ (pc = "done" /\ fn = "build_leverage_heatmap"
            /\ \A i \in 1..Len(args.pools) :
                  IsTracked(args.pools[i]) => NoInvalidField(args.pools[i])) =>
            ~Raised(report)
    /\ Returned("build_leverage_heatmap") =>
            LET pools == args.pools
                protocols == report.protocols
                names == {protocols[i].protocol : i \in 1..Len(protocols)}
            IN  /\ names = {lower(pools[i].project) : i \in
                                {j \in 1..Len(pools) : IsTracked(pools[j])}}
                /\ names \subseteq TRACKED_LENDING
                /\ Cardinality(names) = Len(protocols)
                /\ \A i \in 1..Len(protocols) :
                      protocols[i].pool_count =
                          Cardinality({j \in 1..Len(pools) :
                              lower(pools[j].project) = protocols[i].protocol})
                /\ \A i, j \in 1..Len(protocols) :
                      i < j => protocols[i].utilization >= protocols[j].utilization
                /\ report = build_leverage_heatmap(SelectSeq(pools, IsTracked))

\* Two tracked protocols ranked, with an untracked pool (carrying a
\* non-numeric field) in the input.
C10_Witness ==
    /\ Returned("build_leverage_heatmap")
    /\ Len(report.protocols) = 2
    /\ report.protocols[1].utilization > report.protocols[2].utilization
    /\ \E i \in 1..Len(args.pools) :
          ~IsTracked(args.pools[i]) /\ ~NoInvalidField(args.pools[i])

\* The pools of the call that belong to a protocol, in input order.
PoolsOf(protocol) ==
    LET mine(pool) == lower(pool.project) = protocol
    IN  SelectSeq(args.pools, mine)

\* The borrowed and supplied sums of a pool list, as the analyzer reads them.
BorrowedSum(ps) == SumSeq([j \in 1..Len(ps) |-> pool_borrow_tvl(ps[j]).v])

SuppliedSum(ps) == SumSeq([j \in 1..Len(ps) |-> pool_supply_tvl(ps[j]).v])

\* The tier of the ratio b / s (s > 0), every boundary inclusive.
UtilTier(b, s) ==
    IF b * 100 >= 90 * s THEN "CRITICAL"
    ELSE IF b * 100 >= 80 * s THEN "HIGH"
    ELSE IF b * 100 >= 65 * s THEN "ELEVATED"
    ELSE IF b * 100 >= 50 * s THEN "MODERATE"
    ELSE "LOW"

ExplicitSupply(pool) ==
    IF pool.totalSupplyUsd.t = "none" THEN pool_tvl(pool).v
    ELSE pool.totalSupplyUsd.v

\* C12: per pool, utilization = borrowed / supplied, and 0 whenever the
\* supplied value is 0; the supplied value is the TVL only when no explicit
\* supply figure exists (an explicit 0 stays 0), and an absent borrowed value
\* counts as 0, giving utilization 0 without an error.
C12_PoolUtilization ==
    Returned("build_leverage_heatmap") =>
        LET pd == protocol_data(args.pools, Len(args.pools))
        IN  \A i \in 1..Len(pd) :
                /\ Len(pd[i].pools) = Len(PoolsOf(pd[i].protocol))
                /\ \A k \in 1..Len(pd[i].pools) :
                      LET pool == PoolsOf(pd[i].protocol)[k]
                          u == pd[i].pools[k].utilization
                          borrowed == pool_borrow_tvl(pool).v
                          supplied == ExplicitSupply(pool)
                      IN  /\ supplied = 0 => u.n = 0
                          /\ supplied > 0 => u.n * supplied = borrowed * u.d

\* The TVL of a reported protocol, in the unit of the pools' tvlUsd.
TvlOf(protocol) ==
    SumSeq([j \in 1..Len(PoolsOf(protocol)) |-> pool_tvl(PoolsOf(protocol)[j]).v])

\* The utilization of a reported protocol as an exact fraction.
UtilOf(protocol) ==
    LET B == BorrowedSum(PoolsOf(protocol))
        S == SuppliedSum(PoolsOf(protocol))
    IN  IF S > 0 THEN Frac(B, S) ELSE [n |-> 0, d |-> 1]

\* sum_p(TVL_p * utilization_p) over the first k reported protocols.
RECURSIVE TvlWeightedUtil(_, _)
TvlWeightedUtil(protocols, k) ==
    IF k = 0 THEN [n |-> 0, d |-> 1]
    ELSE LET a == TvlWeightedUtil(protocols, k - 1)
             u == UtilOf(protocols[k].protocol)
             t == TvlOf(protocols[k].protocol)
         IN  Frac(a.n * u.d + t * u.n * a.d, a.d * u.d)

\* C13: the system leverage index is sum_p(TVL_p * utilization_p) /
\* sum_p(TVL_p) over the reported protocols (rounded to 4 decimals), exactly 0
\* when the total TVL is 0, and the system stress level is the per-protocol
\* tier function (same thresholds, inclusive) applied to that index.
C13_SystemLeverageIndex ==
    Returned("build_leverage_heatmap") =>
        LET protocols == report.protocols
            W == TvlWeightedUtil(protocols, Len(protocols))
            T == SumSeq([i \in 1..Len(protocols) |-> TvlOf(protocols[i].protocol)])
        IN  /\ \A i \in 1..Len(protocols) :
                  protocols[i].tvl_usd_bn = TvlOf(protocols[i].protocol)
            /\ T = 0 => /\ report.system_leverage_index = 0
                        /\ report.system_stress_level = "LOW"
            /\ T > 0 => /\ report.system_leverage_index = RoundDiv(W.n * 10000, W.d * T)
                        /\ report.system_stress_level = UtilTier(W.n, W.d * T)

\* Two protocols of different TVL and utilization: aave-v3 (TVL 100 at 0.5)
\* and compound-v3 (TVL 40 at 0.9) give 86 / 140 = 0.6143, MODERATE, where the
\* unweighted mean 0.7 would be ELEVATED.
C13_Witness ==
    /\ Returned("build_leverage_heatmap")
    /\ Len(report.protocols) = 2
    /\ report.protocols[1].tvl_usd_bn = 40
    /\ report.protocols[1].utilization = 9000
    /\ report.protocols[2].tvl_usd_bn = 100
    /\ report.protocols[2].utilization = 5000
    /\ report.system_leverage_index = 6143
    /\ report.system_stress_level = "MODERATE"

\* The positive locked values of the call's bridges, in input order.
PositiveTvls ==
    LET all == [i \in 1..Len(args.bridges) |-> bridge_tvl(args.bridges[i]).v]
        positive(t) == t > 0
    IN  SelectSeq(all, positive)

\* The concentration section was computed (it is not the error record).
HasHhi ==
    /\ Returned("build_bridge_risk_report")
    /\ "concentration" \in DOMAIN report
    /\ "hhi" \in DOMAIN report.concentration

\* The reported HHI, in tenths.
Hhi == report.concentration.hhi

\* A list with its first two elements exchanged, and rotated by one place:
\* the two together generate every reordering.
SwapFirst(s) == IF Len(s) < 2 THEN s ELSE <<s[2], s[1]>> \o SubSeq(s, 3, Len(s))

Rotate(s) == IF s = <<>> THEN s ELSE Append(Tail(s), s[1])

\* The reported HHI does not change when the input is reordered.
HhiOrderInvariant ==
    /\ calc_bridge_concentration(SwapFirst(args.bridges)).hhi = Hhi
    /\ calc_bridge_concentration(Rotate(args.bridges)).hhi = Hhi

SquaresByTotal(ts) ==
    LET T == SumSeq(ts)
        sq == [i \in 1..Len(ts) |-> MulDivMod(ts[i], ts[i], T)]
        rsum == SumSeq([i \in 1..Len(sq) |-> sq[i].r])
    IN  [q |-> SumSeq([i \in 1..Len(sq) |-> sq[i].q]) + rsum \div T, r |-> rsum % T]

\* sum(t^2) / T^2 >= num / den, i.e. the exact HHI is at least 10000 * num / den.
HhiAtLeast(ts, num, den) ==
    LET T == SumSeq(ts)
        s == SquaresByTotal(ts)
    IN  den * s.q + (den * s.r) \div T >= num * T

ExpectedAnomalies ==
    LET flagged(b) ==
            /\ bridge_tvl(b).v > 0
            /\ Abs(bridge_daily_vol(b).v) * 100 >= args.drop_threshold_pct * bridge_tvl(b).v
    IN  SelectSeq(args.bridges, flagged)

\* The anomaly entry the claim expects for a flagged bridge.
ExpectedAnomaly(b) ==
    LET current == bridge_tvl(b).v
        vol == bridge_daily_vol(b).v
    IN  [ bridge |-> b.name,
          tvl_usd_bn |-> current * 1000,
          daily_volume_usd_bn |-> vol * 1000,
          outflow_pct |-> RoundDiv(Abs(vol) * 10000, current),
          severity |-> IF Abs(vol) * 100 > 40 * current THEN "CRITICAL" ELSE "WARNING" ]

\* How often a value occurs in a list.
Count(s, x) == Cardinality({i \in 1..Len(s) : s[i] = x})

HhiAbove(ts, num, den) ==
    LET T == SumSeq(ts)
        s == SquaresByTotal(ts)
        whole == den * s.q + (den * s.r) \div T
    IN  whole > num * T \/ (whole = num * T /\ (den * s.r) % T > 0)

\* C17: for non-empty bridge input, overall_bridge_risk is HIGH iff at least
\* one anomaly exists or HHI > 3000, otherwise MODERATE iff HHI > 1500,
\* otherwise LOW, where the HHI is the one that determines the concentration
\* tier and both comparisons are strict; anomaly_count is the length of the
\* anomalies list.
C17_OverallRisk ==
    HasHhi =>
        LET ts == PositiveTvls
        IN  /\ report.anomaly_count = Len(report.anomalies)
            /\ report.overall_bridge_risk =
                  IF report.anomalies # <<>> \/ HhiAbove(ts, 3, 10) THEN "HIGH"
                  ELSE IF HhiAbove(ts, 3, 20) THEN "MODERATE"
                  ELSE "LOW"

\* The drop fraction whose result the scenario under key k holds: the last
\* one of the list with that key.
LastDrop(k) ==
    Drops[CHOOSE i \in 1..Len(Drops) :
            /\ scenario_key(Drops[i]) = k
            /\ \A j \in 1..Len(Drops) : scenario_key(Drops[j]) = k => j <= i]

\* A position's collateral, debt and liquidation threshold, read as numbers.
CollateralOf(pos) == safe_float(pos.totalCollateralETH)

DebtOf(pos) == safe_float(pos.totalDebtETH)

ThresholdOf(pos) == safe_float(pos.currentLiquidationThreshold)

IsValidPosition(pos) == CollateralOf(pos) > 0 /\ DebtOf(pos) > 0 /\ ThresholdOf(pos) > 0

\* (stressed collateral * threshold) / stressed debt < 1.0 at drop d < 1, the
\* quotient being the float one where the two sides are equal.
IsUnderwater(pos, d) ==
    \/ (CollateralOf(pos) * (FullDrop - d)) * ThresholdOf(pos)
            < 10000 * (DebtOf(pos) * (FullDrop - d))
    \/ << CollateralOf(pos), DebtOf(pos), ThresholdOf(pos), args.eth_price_usd, d >>
            \in FloatShortHealth

\* The stressed collateral value of a position in the report's unit.
StressedCollateral(pos, d) == CollateralOf(pos) * args.eth_price_usd * (FullDrop - d)

\* The cascade call returned scenarios.
HasScenarios == Returned("simulate_cascade") /\ "scenarios" \in DOMAIN report

LendingTvl ==
    LET ps == args.protocol_tvls
        chosen(p) == p.category \in {"lending", "Lending", "LENDING", "cdp", "CDP", "Cdp"}
    IN  SumSeq([i \in 1..Len(SelectSeq(ps, chosen)) |-> SelectSeq(ps, chosen)[i].tvl.v])

\* C19: estimate_cascade_from_tvl sums TVL over exactly the protocols whose
\* category is lending or cdp (case-insensitive) and, for each drop fraction d
\* of the list, reports lendingTVL * d / averageLTV (10 bn, 0.70 and 0.20 give
\* 2.86 bn after rounding); every report it returns carries the TVL-proxy
\* method label, and no simulate_cascade report carries it.
C19_TvlProxyEstimate ==
    /\ Returned("estimate_cascade_from_tvl") =>
            /\ report.method = "TVL-proxy (no Graph data)"
            /\ report.lending_tvl_usd_bn = LendingTvl
            /\ \A i \in 1..Len(Drops) :
                  /\ scenario_key(Drops[i]) \in DOMAIN report.scenarios
                  /\ report.scenarios[scenario_key(Drops[i])].estimated_liquidatable_usd_bn
                        = RoundDiv(LendingTvl * Drops[i], 10 * args.avg_ltv)
            /\ (LendingTvl = 1000 /\ args.avg_ltv = 70 /\ Drops = <<200>>) =>
                  report.scenarios[20].estimated_liquidatable_usd_bn = 286
    /\ Returned("simulate_cascade") => "method" \notin DOMAIN report

\* No lending or CDP protocol of the call has a non-numeric TVL.
NumericLendingTvls ==
    \A i \in 1..Len(args.protocol_tvls) :
        is_lending(args.protocol_tvls[i]) => IsNum(args.protocol_tvls[i].tvl)

\* C20: no zero denominator escapes: with a total market cap, total TVL,
\* bridge locked value, scenario total collateral (a drop of 1.0 included) or
\* assumed average LTV of 0, the call returns a report whose ratio is a
\* defined 0 or null; it neither raises nor reports a non-number.
C20_ZeroDenominators ==
    /\ (pc = "done" /\ Raised(report)) => report.exception # "ZeroDivisionError"
    /\ (Returned("analyse_pegs") /\ report.total_stablecoin_mcap_usd_bn = 0) =>
            report.system_peg_stress_index = 0
    /\ (Returned("build_leverage_heatmap") /\ report.total_lending_tvl_usd_bn = 0) =>
            report.system_leverage_index = 0
    /\ HasScenarios =>
            \A k \in DOMAIN report.scenarios :
                report.scenarios[k].total_collateral_usd_bn = 0 =>
                    report.scenarios[k].cascade_pct_of_tvl = None
    /\ (pc = "done" /\ fn = "estimate_cascade_from_tvl"
            /\ args.avg_ltv = 0 /\ NumericLendingTvls) =>
            /\ ~Raised(report)
            /\ \A k \in DOMAIN report.scenarios :
                  report.scenarios[k].estimated_liquidatable_usd_bn = 0

\* The price an input record carries when it carries one (0 included).
HasPrice(coin) == IsNum(coin.current_price)

\* sum(cap_i * |price_i - 1.0|) over the input with every present price taken
\* as it is and only a missing one as 1.0.
RECURSIVE PresentPriceWeightedSum(_, _)
PresentPriceWeightedSum(data, k) ==
    IF k = 0 THEN 0
    ELSE PresentPriceWeightedSum(data, k - 1)
         + coin_mcap(data[k]).v
           * Abs((IF HasPrice(data[k]) THEN data[k].current_price.v ELSE Peg) - Peg)

\* C23: only a missing price is defaulted to 1.0: every input asset whose
\* price is present, a price of exactly 0 included, is reported with
\* deviation = price - 1.0 (an asset priced at 0: deviation -1.0 and status
\* CRITICAL), and the index weighs it with marketCap * |price - 1.0|.
C23_OnlyMissingPriceDefaulted ==
    Returned("analyse_pegs") =>
        /\ \A i \in 1..Len(args.data) :
              HasPrice(args.data[i]) =>
                 \E j \in 1..Len(report.coins) :
                    /\ report.coins[j].id = args.data[i].id
                    /\ report.coins[j].peg_deviation =
                           (args.data[i].current_price.v - Peg) * 1000
                    /\ args.data[i].current_price.v = 0 =>
                           report.coins[j].status = "CRITICAL"
        /\ LET W == peg_totals(args.data, Len(args.data)).total_mcap
               S == PresentPriceWeightedSum(args.data, Len(args.data))
           IN  W > 0 =>
                  Abs(report.system_peg_stress_index * W - 100000 * S) * 2 <= W

\* C24: simulate_cascade produces exactly one scenario per distinct drop
\* fraction of its list: two distinct drop fractions never map to the same
\* key (0.20 gives drop_20pct), so the number of scenarios equals the number
\* of distinct drops and no scenario's result overwrites another's.
C24_OneScenarioPerDistinctDrop ==
    HasScenarios =>
        /\ \A i, j \in 1..Len(Drops) :
              Drops[i] # Drops[j] => scenario_key(Drops[i]) # scenario_key(Drops[j])
        /\ Cardinality(DOMAIN report.scenarios) = Cardinality(Range(Drops))
        /\ 200 \in Range(Drops) => 20 \in DOMAIN report.scenarios

\* C25: in every cascade scenario whose drop fraction lies in [0, 1] the
\* liquidatable count is at most total_positions_analyzed, 0 <= liquidatable
\* USD <= total collateral USD, and cascade_pct_of_tvl is null exactly when
\* the total collateral is 0 and otherwise lies in [0, 100].
C25_ScenarioBounds ==
    HasScenarios =>
        \A k \in DOMAIN report.scenarios :
            LET d == LastDrop(k)
                sc == report.scenarios[k]
                acc == cascade_totals(args.positions, Len(args.positions),
                                      args.asset_prices_usd, args.eth_price_usd, d)
            IN  (0 <= d /\ d <= FullDrop) =>
                  /\ sc.liquidatable_positions <= report.total_positions_analyzed
                  /\ 0 <= sc.liquidatable_usd_bn
                  /\ sc.liquidatable_usd_bn <= sc.total_collateral_usd_bn
                  /\ 0 <= acc.liquidatable_usd
                  /\ acc.liquidatable_usd <= acc.total_collateral
                  /\ sc.cascade_pct_of_tvl = None <=> acc.total_collateral = 0
                  /\ sc.cascade_pct_of_tvl # None =>
                        /\ IsNum(sc.cascade_pct_of_tvl)
                        /\ 0 <= sc.cascade_pct_of_tvl.v
                        /\ sc.cascade_pct_of_tvl.v <= 100 * 100

\* One report with a scenario whose total collateral is 0 (a drop of 1.0,
\* cascade_pct_of_tvl null) and a scenario where one of two valid positions is
\* liquidatable, its share strictly between 0 and 100 percent.
C25_Witness ==
    /\ HasScenarios
    /\ Len(args.positions) = 2
    /\ \E k, m \in DOMAIN report.scenarios :
          /\ report.scenarios[k].cascade_pct_of_tvl = None
          /\ LastDrop(k) = FullDrop
          /\ report.scenarios[m].liquidatable_positions = 1
          /\ IsNum(report.scenarios[m].cascade_pct_of_tvl)
          /\ report.scenarios[m].cascade_pct_of_tvl.v > 0
          /\ report.scenarios[m].cascade_pct_of_tvl.v < 100 * 100
          /\ report.scenarios[m].liquidatable_usd_bn
                < report.scenarios[m].total_collateral_usd_bn

\* The positions of the call that are liquidatable at drop d, by index.
LiquidatableSet(d) ==
    {i \in 1..Len(args.positions) :
        /\ position_considered(args.positions[i])
        /\ position_liquidatable(args.positions[i], args.eth_price_usd, d)}

\* C27: for a fixed position list the set of liquidatable positions, and
\* hence liquidatable_positions, is the same in every scenario whose drop
\* fraction lies in [0, 1): collateral and debt are re-priced with the same
\* stressed base-asset price, so the stressed health factor does not depend
\* on the drop.
C27_LiquidatableSetIndependentOfDrop ==
    HasScenarios =>
        \A k, m \in DOMAIN report.scenarios :
            LET d1 == LastDrop(k)
                d2 == LastDrop(m)
            IN  (0 <= d1 /\ d1 < FullDrop /\ 0 <= d2 /\ d2 < FullDrop) =>
                  /\ LiquidatableSet(d1) = LiquidatableSet(d2)
                  /\ report.scenarios[k].liquidatable_positions =
                        Cardinality(LiquidatableSet(d1))
                  /\ report.scenarios[k].liquidatable_positions =
                        report.scenarios[m].liquidatable_positions

\* The bridge call returned a report carrying a verdict.
HasVerdict ==
    Returned("build_bridge_risk_report") /\ "overall_bridge_risk" \in DOMAIN report

\* C28: whenever build_bridge_risk_report returns an overall_bridge_risk
\* verdict, its concentration section holds a computed HHI; a non-empty bridge
\* list in which no bridge has positive locked value never yields LOW.
C28_VerdictNeedsComputedHhi ==
    HasVerdict =>
        /\ "hhi" \in DOMAIN report.concentration
        /\ PositiveTvls = <<>> => report.overall_bridge_risk # "LOW"

\* C29: whenever overall_bridge_risk is LOW the concentration_level is
\* COMPETITIVE: a report whose concentration_level is MODERATELY_CONCENTRATED
\* or HIGHLY_CONCENTRATED has verdict MODERATE or HIGH, at an HHI of exactly
\* 1500 and at HHI values that round to 1500.0 as well.
C29_LowVerdictMeansCompetitive ==
    HasHhi =>
        /\ report.overall_bridge_risk = "LOW" =>
              report.concentration.concentration_level = "COMPETITIVE"
        /\ report.concentration.concentration_level
                \in {"MODERATELY_CONCENTRATED", "HIGHLY_CONCENTRATED"} =>
              report.overall_bridge_risk \in {"MODERATE", "HIGH"}

(* ------------------------------------------------------------------ *)
(* Repeated calls                                                     *)
(* ------------------------------------------------------------------ *)

\* The most analyzer calls one caller makes.
MaxCalls == 3

\* The calls a caller repeats and interleaves: two inputs of each analyzer,
\* under the configured thresholds, drops and prices.
RepeatInputs ==
    { [ fn |-> "analyse_pegs",
        args |-> [ data |-> << Coin("usdt", Num(1001), Num(50)),
                              Coin("usdc", Num(994), Num(30)),
                              Coin("dai", Num(1030), Num(20)) >>,
                   warn_threshold |-> 5, critical_threshold |-> 20 ] ],
      [ fn |-> "analyse_pegs",
        args |-> [ data |-> << Coin("usdp", Num(0), Num(5)) >>,
                   warn_threshold |-> 5, critical_threshold |-> 20 ] ],
      [ fn |-> "build_leverage_heatmap",
        args |-> [ pools |-> << Pool("aave-v3", "USDC", Num(100), Num(50), None, None),
                               Pool("venus", "BNB", Num(50), None, Num(40), Num(50)) >> ] ],
      [ fn |-> "build_leverage_heatmap",
        args |-> [ pools |-> << Pool("uniswap", "WETH", Num(500), Invalid, None, Num(500)) >> ] ],
      [ fn |-> "build_bridge_risk_report",
        args |-> [ bridges |-> << Bridge("stargate", Num(2), Num(-1)),
                                 Bridge("wormhole", Num(8), Num(0)) >>,
                   drop_threshold_pct |-> 20 ] ],
      [ fn |-> "build_bridge_risk_report",
        args |-> [ bridges |-> <<>>, drop_threshold_pct |-> 20 ] ],
      [ fn |-> "simulate_cascade",
        args |-> [ positions |->
                       << Position(Num(10), Num(5), Num(8000), <<Collateral("USDC", Num(5))>>),
                          Position(Num(10), Num(10), Num(8000), <<Collateral("WETH", Num(10))>>) >>,
                   asset_prices_usd |-> [s \in {"USDC"} |-> 1],
                   drop_pcts |-> <<100, 200>>, eth_price_usd |-> 2 ] ],
      [ fn |-> "simulate_cascade",
        args |-> [ positions |->
                       << Position(Num(10), Num(10), Num(8000), <<Collateral("WETH", Num(10))>>) >>,
                   asset_prices_usd |-> [s \in {"USDC"} |-> 1],
                   drop_pcts |-> <<200>>, eth_price_usd |-> 2 ] ],
      [ fn |-> "estimate_cascade_from_tvl",
        args |-> [ protocol_tvls |-> << Protocol("aave", "Lending", Num(600)),
                                       Protocol("maker", "CDP", Num(400)) >>,
                   drop_pcts |-> <<200>>, avg_ltv |-> 70 ] ],
      [ fn |-> "estimate_cascade_from_tvl",
        args |-> [ protocol_tvls |-> << Protocol("radiant", "Lending", Invalid) >>,
                   drop_pcts |-> <<200>>, avg_ltv |-> 70 ] ] }

RepeatInit ==
    /\ pc = "call"
    /\ report = NoReport
    /\ calls = <<>>
    /\ payload = NoPayload
    /\ published = NoFiles
    /\ \E c \in RepeatInputs : fn = c.fn /\ args = c.args

\* The caller, holding a report, calls an analyzer again.
next_call ==
    /\ pc = "done"
    /\ Len(calls) < MaxCalls
    /\ \E c \in RepeatInputs : fn' = c.fn /\ args' = c.args
    /\ report' = NoReport
    /\ pc' = "call"
    /\ UNCHANGED <<calls, payload, published>>

RepeatNext ==
    \/ call_analyse_pegs
    \/ call_build_leverage_heatmap
    \/ call_build_bridge_risk_report
    \/ call_simulate_cascade
    \/ call_estimate_cascade_from_tvl
    \/ next_call

RepeatSpec == RepeatInit /\ [][RepeatNext]_vars

EmptyDict == [empty |-> TRUE]

\* cfg.peg_warn_threshold (0.005) and cfg.peg_critical_threshold (0.02).
PegWarnThreshold == 5

PegCriticalThreshold == 20

\* cfg.bridge_drop_pct, in percent.
BridgeDropPct == 20

\* _extract_eth_price returns 2000.0.
EthPriceUsd == 2

\* asset_prices gives WBTC 15 times the ETH price.
WbtcEthRatio == 15

\* The default avg_ltv of estimate_cascade_from_tvl (0.70), which the
\* pipeline does not override.
DefaultAvgLtv == 70

\* top_chains_tvl keeps the first 10 chains.
TopChains == 10

\* What a data source hands to a step of the try blocks: it returns a value
\* or raises.
Fetched(value) == [raises |-> FALSE, value |-> value]

FetchFailed == [raises |-> TRUE, value |-> <<>>]

\* get_stablecoin_market_data(): nothing, the spec's three coins, or a coin
\* whose price is not a number.
StableFeeds ==
    { <<>>,
      << Coin("usdt", Num(1001), Num(50)), Coin("usdc", Num(994), Num(30)),
         Coin("dai", Num(1030), Num(20)) >>,
      << Coin("fei", Invalid, Num(1)) >> }

\* get_lending_rates()
PoolFeeds ==
    { <<>>,
      << Pool("aave-v3", "USDC", Num(100), Num(50), None, None),
         Pool("venus", "BNB", Num(50), None, Num(40), Num(50)) >>,
      << Pool("aave-v3", "DAI", Invalid, Num(5), None, Num(10)) >> }

\* get_all_bridges()
BridgeFeeds ==
    { <<>>,
      << Bridge("wormhole", Num(8), Num(0)), Bridge("stargate", Num(2), Num(-1)) >>,
      << Bridge("nomad", Invalid, Num(0)) >> }

\* get_aave_v3_risky_users(): it raises, finds no position, or returns
\* positions (one list of two, one of a single record without usable fields).
PositionFeeds ==
    { FetchFailed,
      Fetched(<<>>),
      Fetched(<< Position(Num(10), Num(10), Num(8000), <<Collateral("WETH", Num(10))>>),
                 Position(Num(10), Num(5), Num(8000), <<Collateral("USDC", Num(5))>>) >>),
      Fetched(<< Position(Invalid, None, Num(8000), <<>>) >>) }

\* get_lending_protocols(top_n=30)
LendingFeeds ==
    { FetchFailed,
      Fetched(<<>>),
      Fetched(<< Protocol("aave", "Lending", Num(600)),
                 Protocol("maker", "CDP", Num(400)) >>),
      Fetched(<< Protocol("radiant", "Lending", Invalid) >>) }

\* get_onchain_stress_snapshot() and get_defi_global()
OnchainFeeds == { FetchFailed, Fetched([mvrv_z_score |-> None, sopr |-> None]) }

GlobalFeeds == { FetchFailed, Fetched([defi_dominance |-> "4.1"]) }

Chain(name, tvl) == [name |-> name, tvl |-> tvl]

\* What get_chain_tvls() returns: a list of chains, or None when the request
\* failed (isinstance(chain_tvls, list) is then false).
ChainList(items) == [is_list |-> TRUE, items |-> items]

NotAList == [is_list |-> FALSE, items |-> <<>>]

\* get_chain_tvls(): it raises, returns None, a list of chains (TVL in
\* 1e9 USD), or a list with a TVL that is not a number.
ChainFeeds ==
    { FetchFailed,
      Fetched(NotAList),
      Fetched(ChainList(<< Chain("Tron", Num(8)), Chain("Ethereum", Num(60)) >>)),
      Fetched(ChainList(<< Chain("Ethereum", Invalid) >>)) }

\* cfg.cascade_price_drops: the default of CASCADE_DROPS and a configured
\* list with two drops inside one percent.
DropConfigs == { <<100, 200, 300, 400, 500>>, <<200, 205>> }

\* The payload run_pipeline starts from.
payload_header ==
    [date |-> "today", generated_at |-> "now", methodology_version |-> "1.0"]

\* payload[key] = value
with_section(p, section) == section @@ p

\* asset_prices of step 4, in USD.
pipeline_asset_prices(eth_price) ==
    [s \in {"WETH", "WBTC", "USDC", "USDT", "DAI"} |->
        CASE s = "WETH" -> eth_price * 1000
          [] s = "WBTC" -> eth_price * 1000 * WbtcEthRatio
          [] OTHER -> 1]

PipelineInit ==
    /\ pc = "stablecoin_stress"
    /\ fn = "run_pipeline"
    /\ report = NoReport
    /\ calls = <<>>
    /\ payload = payload_header
    /\ published = NoFiles
    /\ \E stable \in StableFeeds, pools \in PoolFeeds, bridges \in BridgeFeeds,
          positions \in PositionFeeds, lending \in LendingFeeds,
          onchain \in OnchainFeeds, global \in GlobalFeeds,
          chains \in ChainFeeds, drops \in DropConfigs :
          args = [ stable_market |-> stable, pools |-> pools, bridges |-> bridges,
                   aave_positions |-> positions, lending_protos |-> lending,
                   onchain |-> onchain, defi_global |-> global,
                   chain_tvls |-> chains, cascade_price_drops |-> drops ]

\* Steps 1 to 3 are outside any try block: an exception of the analyzer ends
\* the run.
step_unguarded(here, next, analyzer, a, section, result) ==
    /\ pc = here
    /\ IF result = EmptyDict
       THEN calls' = calls
       ELSE calls' = Append(calls, Call(analyzer, a, arguments_after(a), result))
    /\ IF Raised(result)
       THEN /\ pc' = "raised"
            /\ report' = result
            /\ UNCHANGED payload
       ELSE /\ pc' = next
            /\ payload' = with_section(payload, section)
            /\ UNCHANGED report
    /\ UNCHANGED <<fn, args, published>>

\* 1. Stablecoin peg stress (lines 52-62).
step_stablecoin_stress ==
    LET stable_market == args.stable_market
        a == [ data |-> stable_market, warn_threshold |-> PegWarnThreshold,
               critical_threshold |-> PegCriticalThreshold ]
        peg_analysis ==
            IF stable_market # <<>>
            THEN analyse_pegs(stable_market, PegWarnThreshold, PegCriticalThreshold)
            ELSE EmptyDict
    IN  step_unguarded("stablecoin_stress", "protocol_leverage", "analyse_pegs", a,
                       [stablecoin_stress |-> peg_analysis], peg_analysis)

\* 2. Protocol leverage heatmap (lines 66-71).
step_protocol_leverage ==
    LET pools == args.pools
        leverage_data ==
            IF pools # <<>> THEN build_leverage_heatmap(pools) ELSE EmptyDict
    IN  step_unguarded("protocol_leverage", "bridge_risk", "build_leverage_heatmap",
                       [pools |-> pools],
                       [protocol_leverage |-> leverage_data], leverage_data)

\* 3. Bridge risk (lines 75-81).
step_bridge_risk ==
    LET bridges == args.bridges
        bridge_risk ==
            IF bridges # <<>>
            THEN build_bridge_risk_report(bridges, BridgeDropPct)
            ELSE EmptyDict
    IN  step_unguarded("bridge_risk", "liquidation_cascade", "build_bridge_risk_report",
                       [bridges |-> bridges, drop_threshold_pct |-> BridgeDropPct],
                       [bridge_risk |-> bridge_risk], bridge_risk)

\* Mutant: the estimate is taken whenever a protocol list is at hand.
cascade_path_prefers_estimate(aave_positions, lending_protos) ==
    IF aave_positions.raises THEN "failed"
    ELSE IF ~lending_protos.raises /\ lending_protos.value # <<>> THEN "estimate"
    ELSE IF aave_positions.value # <<>> THEN "simulate"
    ELSE "failed"

\* The branch step 4 takes: the position feed raised, returned positions, or
\* returned none and the protocol feed then raised or returned.
cascade_path(aave_positions, lending_protos) ==
    IF aave_positions.raises THEN "failed"
    ELSE IF aave_positions.value # <<>> THEN "simulate"
    ELSE IF lending_protos.raises THEN "failed"
    ELSE "estimate"

\* 4. Liquidation cascade (lines 85-108): any exception of the feeds or of
\* the analyzer becomes {"error": str(e)}.
step_liquidation_cascade ==
    /\ pc = "liquidation_cascade"
    /\ LET path == cascade_path(args.aave_positions, args.lending_protos)
           eth_price == EthPriceUsd
           simulate_args ==
               [ positions |-> args.aave_positions.value,
                 asset_prices_usd |-> pipeline_asset_prices(eth_price),
                 drop_pcts |-> args.cascade_price_drops,
                 eth_price_usd |-> eth_price ]
           estimate_args ==
               [ protocol_tvls |-> args.lending_protos.value,
                 drop_pcts |-> args.cascade_price_drops,
                 avg_ltv |-> DefaultAvgLtv ]
           returned ==
               CASE path = "simulate" ->
                        simulate_cascade(simulate_args.positions,
                                         simulate_args.asset_prices_usd,
                                         simulate_args.drop_pcts,
                                         simulate_args.eth_price_usd)
                 [] path = "estimate" ->
                        estimate_cascade_from_tvl(estimate_args.protocol_tvls,
                                                  estimate_args.drop_pcts,
                                                  estimate_args.avg_ltv)
                 [] OTHER -> Raise("ConnectionError")
       IN  \E result \in {returned} :
           LET cascade_data ==
                   IF Raised(result) THEN [error |-> result.exception] ELSE result
           IN
           /\ calls' =
                  CASE path = "simulate" ->
                           Append(calls, Call("simulate_cascade", simulate_args,
                                              arguments_after(simulate_args), result))
                    [] path = "estimate" ->
                           Append(calls, Call("estimate_cascade_from_tvl", estimate_args,
                                              arguments_after(estimate_args), result))
                    [] OTHER -> calls
           /\ payload' = with_section(payload, [liquidation_cascade |-> cascade_data])
    /\ pc' = "onchain_stress"
    /\ UNCHANGED <<fn, args, report, published>>

\* A step whose fetch is wrapped in try/except: the section is what the
\* source returned, or {} when it raised.
fetched_or_empty(feed) == IF feed.raises THEN EmptyDict ELSE feed.value

\* Mutant: the exception of a source is not caught and ends the run.
resume_unless_raised(feed, next) == IF feed.raises THEN "raised" ELSE next

\* Where the run goes on after a step wrapped in try/except: the handler
\* logs the exception and falls through to the next step.
resume_after(feed, next) == next

\* 5. On-chain stress (lines 112-117).
step_onchain_stress ==
    /\ pc = "onchain_stress"
    /\ payload' = with_section(payload, [onchain_stress |-> fetched_or_empty(args.onchain)])
    /\ pc' = resume_after(args.onchain, "defi_global")
    /\ UNCHANGED <<fn, args, report, calls, published>>

\* 6. DeFi macro stats (lines 121-126).
step_defi_global ==
    /\ pc = "defi_global"
    /\ payload' = with_section(payload, [defi_global |-> fetched_or_empty(args.defi_global)])
    /\ pc' = resume_after(args.defi_global, "top_chains_tvl")
    /\ UNCHANGED <<fn, args, report, calls, published>>

chain_tvl(c) == c.tvl.v

\* The list of lines 133-137: the chains by TVL, largest first, the first
\* ten, with the TVL in bn rounded to 2 decimals.
top_chains_tvl(chain_tvls) ==
    LET ranked == SortedDesc(chain_tvls, chain_tvl)
        top_chains == SubSeq(ranked, 1, IF Len(ranked) < TopChains
                                        THEN Len(ranked) ELSE TopChains)
    IN  [i \in 1..Len(top_chains) |->
            [ chain |-> top_chains[i].name,
              tvl_usd_bn |-> RoundDiv(top_chains[i].tvl.v * 100, 1) ]]

\* 7. Chain TVL summary (lines 130-139): the key is written only when the
\* source returned a list and no record made the ranking raise.
step_top_chains_tvl ==
    /\ pc = "top_chains_tvl"
    /\ LET chain_tvls == args.chain_tvls
       IN  IF \/ chain_tvls.raises
              \/ ~chain_tvls.value.is_list
              \/ \E i \in 1..Len(chain_tvls.value.items) :
                    ~IsNum(chain_tvls.value.items[i].tvl)
           THEN UNCHANGED payload
           ELSE payload' = with_section(payload,
                              [top_chains_tvl |-> top_chains_tvl(chain_tvls.value.items)])
    /\ pc' = resume_after(args.chain_tvls, "publish_latest")
    /\ UNCHANGED <<fn, args, report, calls, published>>

\* publish_latest(today, payload) writes latest.json.
publish_latest ==
    /\ pc = "publish_latest"
    /\ published' = [published EXCEPT !.latest = payload]
    /\ pc' = "publish_snapshot"
    /\ UNCHANGED <<fn, args, report, calls, payload>>

\* publish_snapshot(today, payload) writes history/<date>.json.
publish_snapshot ==
    /\ pc = "publish_snapshot"
    /\ published' = [published EXCEPT !.snapshot = payload]
    /\ pc' = "complete"
    /\ UNCHANGED <<fn, args, report, calls, payload>>

\* The steps of one run of run_pipeline.
run_pipeline ==
    \/ step_stablecoin_stress
    \/ step_protocol_leverage
    \/ step_bridge_risk
    \/ step_liquidation_cascade
    \/ step_onchain_stress
    \/ step_defi_global
    \/ step_top_chains_tvl
    \/ publish_latest
    \/ publish_snapshot

\* _load_latest(): the content of latest.json, {} when there is none. What
\* json.dump wrote is what json.loads reads: the sections hold str keys,
\* numbers, strings, null and lists only.
load_latest(files) == IF files.latest = NoFile THEN EmptyDict ELSE files.latest

\* drop_pct of a query, in tenths of a percent (20.5 is 205), or None.
DropQueries == {None, Num(100), Num(200), Num(205), Num(250), Num(-5)}

\* dict.get(key, default) on a section.
dict_get(d, key, default) == IF key \in DOMAIN d THEN d[key] ELSE default

NoScenarios == [k \in {} |-> EmptyDict]

\* The number k in the key f"drop_{int(drop_pct)}pct" of the lookup.
query_key(drop_pct) == int_trunc(drop_pct.v, 10)

\* get_liquidation_cascade(asset, drop_pct) on the loaded data.
get_liquidation_cascade(data, asset, drop_pct) ==
    LET cascade == dict_get(data, "liquidation_cascade", EmptyDict)
    IN  IF cascade = EmptyDict
        THEN [error |-> "No liquidation data available."]
        ELSE IF drop_pct # None
        THEN LET key == query_key(drop_pct)
                 scenarios == dict_get(cascade, "scenarios", NoScenarios)
             IN  IF key \notin DOMAIN scenarios
                 THEN [ error |-> "Scenario not found.", key |-> key,
                        available |-> DOMAIN scenarios ]
                 ELSE [ methodology |-> dict_get(cascade, "methodology", None) ]
                      @@ scenarios[key]
                      @@ [ date |-> dict_get(data, "date", None), asset |-> asset,
                           drop_pct |-> drop_pct ]
        ELSE cascade @@ [date |-> dict_get(data, "date", None), asset |-> asset]

\* A client queries the cascade after a run has ended, normally or not.
call_get_liquidation_cascade ==
    /\ pc \in {"complete", "raised"}
    /\ \E drop_pct \in DropQueries :
          /\ report' = get_liquidation_cascade(load_latest(published), "ETH", drop_pct)
          /\ args' = [asset |-> "ETH", drop_pct |-> drop_pct] @@ args
    /\ fn' = "get_liquidation_cascade"
    /\ pc' = "served"
    /\ UNCHANGED <<calls, payload, published>>

PipelineNext ==
    \/ step_stablecoin_stress
    \/ step_protocol_leverage
    \/ step_bridge_risk
    \/ step_liquidation_cascade
    \/ step_onchain_stress
    \/ step_defi_global
    \/ step_top_chains_tvl
    \/ publish_latest
    \/ publish_snapshot
    \/ call_get_liquidation_cascade

PipelineSpec == PipelineInit /\ [][PipelineNext]_vars

\* What run_pipeline does from its fourth step on: the steps whose fetches are
\* inside try/except, and the two writes.
run_pipeline_guarded ==
    \/ step_liquidation_cascade
    \/ step_onchain_stress
    \/ step_defi_global
    \/ step_top_chains_tvl
    \/ publish_latest
    \/ publish_snapshot

\* The runs whose first three sources return the records the analyzers
\* accept (three coins, two pools, two bridges), so that the run reaches its
\* fourth step; the sources of the later steps and the configured drops range
\* over their catalogues.
PipelineLiveInit ==
    /\ PipelineInit
    /\ Len(args.stable_market) = 3
    /\ Len(args.pools) = 2
    /\ Len(args.bridges) = 2

\* run_pipeline is straight-line code with no wait and no loop, and the
\* fetches time out: a run that has reached its fourth step takes each
\* following step in turn.
PipelineLive ==
    PipelineLiveInit /\ [][PipelineNext]_vars /\ WF_vars(run_pipeline_guarded)

\* The cascade section of latest.json, if a run has published one.
PublishedCascade ==
    IF published.latest = NoFile THEN EmptyDict
    ELSE published.latest.liquidation_cascade

\* The drop fractions for which the published run computed a scenario.
ComputedDrops ==
    IF "scenarios" \in DOMAIN PublishedCascade
    THEN Range(args.cascade_price_drops)
    ELSE {}

\* The cascade call of the run, and the scenario it computes for drop d.
CascadeCall ==
    calls[CHOOSE i \in 1..Len(calls) :
            calls[i].fn \in {"simulate_cascade", "estimate_cascade_from_tvl"}]

ScenarioComputedFor(d) ==
    LET c == CascadeCall
    IN  IF c.fn = "simulate_cascade"
        THEN calc_cascade(c.args.positions, c.args.asset_prices_usd,
                          c.args.eth_price_usd, d)
        ELSE LET lending == lending_protocols(c.args.protocol_tvls)
                 lending_tvl == SumSeq([i \in 1..Len(lending) |-> lending[i].tvl.v])
             IN  [ estimated_liquidatable_usd_bn |->
                       RoundDiv(lending_tvl * d, 10 * c.args.avg_ltv) ]

\* A query with a drop_pct has been answered.
ScenarioQueried == pc = "served" /\ args.drop_pct # None

\* C21: get_liquidation_cascade, given a drop_pct, returns a scenario only
\* when that exact drop was computed, and then that drop's figures; for every
\* drop_pct that is not one of the computed scenarios (20.5 when only 20 was
\* computed) it returns an error record listing the available scenario keys;
\* it never raises.
C21_ExactScenarioLookup ==
    ScenarioQueried =>
        LET asked == args.drop_pct.v
        IN  /\ ~Raised(report)
            /\ "error" \notin DOMAIN report =>
                  /\ asked \in ComputedDrops
                  /\ \A k \in DOMAIN ScenarioComputedFor(asked) :
                        /\ k \in DOMAIN report
                        /\ report[k] = ScenarioComputedFor(asked)[k]
            /\ asked \notin ComputedDrops =>
                  /\ "error" \in DOMAIN report
                  /\ "scenarios" \in DOMAIN PublishedCascade =>
                        report.available = DOMAIN PublishedCascade.scenarios

\* Step 4 of the run is over: the payload holds a liquidation_cascade section.
HasCascadeSection ==
    /\ fn = "run_pipeline"
    /\ "liquidation_cascade" \in DOMAIN payload

\* The cascade analyzers the run has called.
IsCascadeCall(c) == c.fn \in {"simulate_cascade", "estimate_cascade_from_tvl"}

CascadeCalls == SelectSeq(calls, IsCascadeCall)

\* The position feed returned, with or without positions.
PositionsFound == ~args.aave_positions.raises /\ args.aave_positions.value # <<>>

NoPositionsFound == ~args.aave_positions.raises /\ args.aave_positions.value = <<>>

\* What the two analyzers return on the feeds of the run.
SimulateReport ==
    simulate_cascade(args.aave_positions.value, pipeline_asset_prices(EthPriceUsd),
                     args.cascade_price_drops, EthPriceUsd)

EstimateReport ==
    estimate_cascade_from_tvl(args.lending_protos.value, args.cascade_price_drops,
                              DefaultAvgLtv)

\* What both statements of C26 share: with positions the section is the
\* simulate_cascade report and that analyzer alone was called;
\* simulate_cascade is never called with an empty position list; at most one
\* of the two analyzers is called in a run.
CascadePathSelection ==
    /\ PositionsFound =>
          /\ payload.liquidation_cascade = SimulateReport
          /\ Len(CascadeCalls) = 1
          /\ CascadeCalls[1].fn = "simulate_cascade"
          /\ CascadeCalls[1].report = payload.liquidation_cascade
    /\ \A i \in 1..Len(CascadeCalls) :
          CascadeCalls[i].fn = "simulate_cascade" =>
              CascadeCalls[i].args.positions # <<>>
    /\ Len(CascadeCalls) <= 1

\* C26 as stated: the path is selected by data availability alone, and when
\* the position feed returns no positions the liquidation_cascade section is
\* the estimate_cascade_from_tvl report carrying the TVL-proxy label.
C26_Original ==
    HasCascadeSection =>
        /\ CascadePathSelection
        /\ NoPositionsFound =>
              /\ "method" \in DOMAIN payload.liquidation_cascade
              /\ payload.liquidation_cascade.method = TVL_PROXY_METHOD
              /\ payload.liquidation_cascade = EstimateReport

\* What run_pipeline does: with at least one position the section is the
\* simulate_cascade report; with no position only estimate_cascade_from_tvl
\* may be called, and the section is its report carrying the TVL-proxy label
\* when the protocol feed and the estimator return, and an error record when
\* either raises; simulate_cascade is never called with an empty list and
\* the two paths are never both run.
C26_CascadePathByAvailability ==
    HasCascadeSection =>
        /\ CascadePathSelection
        /\ NoPositionsFound =>
              /\ \A i \in 1..Len(CascadeCalls) :
                    CascadeCalls[i].fn = "estimate_cascade_from_tvl"
              /\ IF args.lending_protos.raises
                 THEN /\ CascadeCalls = <<>>
                      /\ DOMAIN payload.liquidation_cascade = {"error"}
                 ELSE /\ Len(CascadeCalls) = 1
                      /\ IF Raised(EstimateReport)
                         THEN DOMAIN payload.liquidation_cascade = {"error"}
                         ELSE /\ payload.liquidation_cascade = EstimateReport
                              /\ payload.liquidation_cascade.method = TVL_PROXY_METHOD

\* A finished run whose position feed returned no positions: the estimator
\* was the one analyzer called for the cascade, on lending TVL of 10 bn, and
\* the section carries the TVL-proxy label.
C26_Witness ==
    /\ HasCascadeSection
    /\ pc = "complete"
    /\ NoPositionsFound
    /\ Len(CascadeCalls) = 1
    /\ CascadeCalls[1].fn = "estimate_cascade_from_tvl"
    /\ "method" \in DOMAIN payload.liquidation_cascade
    /\ payload.liquidation_cascade.method = TVL_PROXY_METHOD
    /\ payload.liquidation_cascade.lending_tvl_usd_bn = 1000

\* The sections every published payload holds.
RequiredSections ==
    { "stablecoin_stress", "protocol_leverage", "bridge_risk",
      "liquidation_cascade", "onchain_stress", "defi_global" }

\* Both files are written and hold the payload of the run, with every
\* required section.
PublishedBoth ==
    /\ published.latest = payload
    /\ published.snapshot = payload
    /\ RequiredSections \subseteq DOMAIN payload

\* C30: every run in which the peg, leverage and bridge steps return
\* eventually publishes: whatever the cascade, on-chain, macro-statistics or
\* chain-TVL step raises, the run reaches publish_latest and then
\* publish_snapshot, both with the same payload, which holds the sections
\* stablecoin_stress, protocol_leverage, bridge_risk, liquidation_cascade,
\* onchain_stress and defi_global; the snapshot is never written before
\* latest.json.
C30_RunEventuallyPublishes ==
    /\ (pc = "liquidation_cascade") ~> (pc = "complete" /\ PublishedBoth)
    /\ [](published.snapshot # NoFile => published.latest = published.snapshot)
    /\ [](published.latest # NoFile => RequiredSections \subseteq DOMAIN published.latest)

\* A run in which the position feed, the on-chain source, the macro source
\* and the chain-TVL source all raised has published both files.
C30_Witness ==
    /\ pc = "complete"
    /\ args.aave_positions.raises
    /\ args.onchain.raises
    /\ args.defi_global.raises
    /\ args.chain_tvls.raises
    /\ PublishedBoth
    /\ DOMAIN payload.liquidation_cascade = {"error"}
    /\ payload.onchain_stress = EmptyDict

============================================================================
